---- MODULE Spec2Model ----
(***************************************************************************)
(* Model of the gesture recognition engine of obsidian-gesture-commander   *)
(* (DollarRecognizer in src/gesture-recognizer.ts) and of its callers.     *)
(*                                                                         *)
(* JavaScript numbers are modelled as fixed-point values: a finite number  *)
(* v is the integer round(v * SCALE); the three non-finite values of an    *)
(* IEEE double (NaN, +Infinity, -Infinity) are kept as three integers      *)
(* outside the finite range, and every arithmetic operator follows the     *)
(* IEEE rules for them (x/0, 0*Infinity, comparisons with NaN, ...).       *)
(***************************************************************************)
EXTENDS Integers, Sequences, FiniteSets, TLC

\* ------------------------------------------------------------------------
\* Numbers
\* ------------------------------------------------------------------------

\* fixed-point denominator: one unit of the model is 1/SCALE
SCALE == 256

\* largest magnitude of a finite number of the model
MAXNUM == 2000000000

PInf == MAXNUM + 1
NInf == -PInf
NaN == MAXNUM + 2

IsNaN(a) == a = NaN
IsFin(a) == a < PInf /\ a > NInf

\* the number n (an integer of the program text) as a model number
Num(n) == n * SCALE

Neg(a) == IF a = NaN THEN NaN ELSE -a

Mag(a) == IF a < 0 THEN -a ELSE a

Sgn(a) == IF a < 0 THEN -1 ELSE IF a > 0 THEN 1 ELSE 0

\* a + b
FAdd(a, b) ==
  IF IsFin(a) /\ IsFin(b) THEN a + b
  ELSE IF a = NaN \/ b = NaN THEN NaN
  ELSE IF IsFin(a) THEN b
  ELSE IF IsFin(b) THEN a
  ELSE IF a = b THEN a ELSE NaN

\* a - b
FSub(a, b) == FAdd(a, Neg(b))

\* round(a * b / SCALE) for a, b >= 0, computed without leaving 32 bits
MulMag(a, b) ==
  IF a < 46341 /\ b < 46341 THEN (a * b + SCALE \div 2) \div SCALE
  ELSE LET ah == a \div SCALE
           al == a % SCALE
           bh == b \div SCALE
           bl == b % SCALE
       IN  ah * bh * SCALE + ah * bl + al * bh
             + (al * bl + SCALE \div 2) \div SCALE

\* a * b
FMul(a, b) ==
  IF IsFin(a) /\ IsFin(b) THEN Sgn(a) * Sgn(b) * MulMag(Mag(a), Mag(b))
  ELSE IF a = NaN \/ b = NaN THEN NaN
  ELSE IF a = 0 \/ b = 0 THEN NaN
  ELSE IF (a < 0) = (b < 0) THEN PInf ELSE NInf

\* round(a * SCALE / b) for a >= 0, b > 0
DivMag(a, b) ==
  LET q == a \div b
      r == a % b
  IN  IF r < 4000000 THEN q * SCALE + (r * SCALE + b \div 2) \div b
      ELSE q * SCALE + r \div (b \div SCALE)

\* a / b
FDiv(a, b) ==
  IF IsFin(a) /\ IsFin(b)
    THEN IF b = 0
           THEN IF a = 0 THEN NaN ELSE IF a > 0 THEN PInf ELSE NInf
           ELSE Sgn(a) * Sgn(b) * DivMag(Mag(a), Mag(b))
  ELSE IF a = NaN \/ b = NaN THEN NaN
  ELSE IF IsFin(b) THEN (IF (a < 0) = (b < 0) THEN PInf ELSE NInf)
  ELSE IF IsFin(a) THEN 0
  ELSE NaN

\* (a / c) * b; a finite quotient below one has few digits in fixed point,
\* so for finite operands the product is taken first and rounded once
FMulDiv(a, b, c) ==
  IF IsFin(a) /\ IsFin(b) /\ IsFin(c) /\ c # 0
       /\ Mag(a) < 46341 /\ Mag(b) < 46341
    THEN LET m == (Mag(a) * Mag(b) + Mag(c) \div 2) \div Mag(c)
         IN  IF ((a < 0) = (b < 0)) = (c > 0) THEN m ELSE -m
  ELSE FMul(FDiv(a, c), b)

\* a < b, false when either side is NaN
FLt(a, b) == a # NaN /\ b # NaN /\ a < b

\* a > b
FGt(a, b) == FLt(b, a)

\* a >= b, false when either side is NaN
FGe(a, b) == a # NaN /\ b # NaN /\ a >= b

\* Math.min(a, b)
FMin(a, b) == IF a = NaN \/ b = NaN THEN NaN ELSE IF a < b THEN a ELSE b

\* Math.max(a, b)
FMax(a, b) == IF a = NaN \/ b = NaN THEN NaN ELSE IF a > b THEN a ELSE b

\* Math.abs(a)
FAbs(a) == IF a = NaN THEN NaN ELSE Mag(a)

\* Newton iteration for the integer square root of n, from an estimate
\* x >= sqrt(n)
RECURSIVE ISqrtFrom(_, _)
ISqrtFrom(n, x) ==
  LET y == (x + n \div x) \div 2
  IN  IF y >= x THEN x ELSE ISqrtFrom(n, y)

\* floor(sqrt(n)) for n >= 0
ISqrt(n) ==
  IF n < 2 THEN n
  ELSE ISqrtFrom(n, IF n < 256 THEN 16
                    ELSE IF n < 65536 THEN 256
                    ELSE IF n < 16777216 THEN 4096
                    ELSE 46341)

\* Math.sqrt(a)
FSqrt(a) ==
  IF a = NaN \/ a < 0 THEN NaN
  ELSE IF a = PInf THEN PInf
  ELSE IF a < 8000000 THEN ISqrt(a * SCALE)
  ELSE ISqrt(a) * ISqrt(SCALE)

\* Math.PI
PI == (355 * SCALE) \div 113

HALF_PI == PI \div 2

QUARTER_PI == PI \div 4

\* x * x for a finite x of magnitude up to 1
Sq(x) == (x * x) \div SCALE

\* cos(x) as a polynomial in x2 = x * x
CosPoly(x2) ==
  SCALE - x2 \div 2 + (x2 * x2) \div (24 * SCALE)
    - (x2 * x2 * x2) \div (720 * SCALE * SCALE)

\* sin(x) / x as a polynomial in x2 = x * x
SinPoly(x2) ==
  SCALE - x2 \div 6 + (x2 * x2) \div (120 * SCALE)
    - (x2 * x2 * x2) \div (5040 * SCALE * SCALE)

\* cosine of a finite x with |x| <= PI/4 (Taylor polynomial)
CosSmall(x) == CosPoly(Sq(x))

\* sine of a finite x with |x| <= PI/4 (Taylor polynomial)
SinSmall(x) == (x * SinPoly(Sq(x))) \div SCALE

\* cosine of a finite m with 0 <= m <= PI
CosMag(m) ==
  IF m <= QUARTER_PI THEN CosSmall(m)
  ELSE IF m <= 3 * QUARTER_PI THEN -SinSmall(m - HALF_PI)
  ELSE -CosSmall(PI - m)

\* sine of a finite m with 0 <= m <= PI
SinMag(m) ==
  IF m <= QUARTER_PI THEN SinSmall(m)
  ELSE IF m <= 3 * QUARTER_PI THEN CosSmall(m - HALF_PI)
  ELSE SinSmall(PI - m)

\* Math.cos(x), |x| <= PI
FCos(x) == IF IsFin(x) THEN CosMag(Mag(x)) ELSE NaN

\* Math.sin(x), |x| <= PI
FSin(x) == IF IsFin(x) THEN Sgn(x) * SinMag(Mag(x)) ELSE NaN

\* atan(w) / w as a polynomial in w2 = w * w
AtanPoly(w2) ==
  SCALE - w2 \div 3 + (w2 * w2) \div (5 * SCALE)
    - (w2 * w2 * w2) \div (7 * SCALE * SCALE)

\* arc tangent of a finite w with 0 <= w <= tan(PI/8) (Taylor polynomial)
AtanSmall(w) == (w * AtanPoly(Sq(w))) \div SCALE

\* arc tangent of a finite z with 0 <= z <= 1, by the half-angle identity
\* atan(z) = 2 * atan(z / (1 + sqrt(1 + z^2)))
AtanUnit(z) ==
  2 * AtanSmall((z * SCALE) \div (SCALE + ISqrt(SCALE * SCALE + z * z)))

\* arc tangent of a finite m >= 0
AtanMag(m) ==
  IF m <= SCALE THEN AtanUnit(m)
  ELSE HALF_PI - AtanUnit((SCALE * SCALE) \div m)

\* Math.atan(z)
FAtan(z) ==
  IF z = NaN THEN NaN
  ELSE IF z = PInf THEN HALF_PI
  ELSE IF z = NInf THEN -HALF_PI
  ELSE Sgn(z) * AtanMag(Mag(z))

\* Math.atan2(y, x), t being Math.atan(y / x)
Atan2From(y, x, t) ==
  IF y = NaN \/ x = NaN THEN NaN
  ELSE IF ~IsFin(y) /\ ~IsFin(x)
    THEN (IF y > 0 THEN 1 ELSE -1) * (IF x > 0 THEN QUARTER_PI ELSE 3 * QUARTER_PI)
  ELSE IF x = 0
    THEN IF y > 0 THEN HALF_PI ELSE IF y < 0 THEN -HALF_PI ELSE 0
  ELSE IF x > 0 THEN t
  ELSE IF y >= 0 THEN t + PI
  ELSE t - PI

\* Math.atan2(y, x)
FAtan2(y, x) == Atan2From(y, x, FAtan(FDiv(y, x)))

\* Math.acos(x)
FAcos(x) ==
  IF x = NaN \/ x > Num(1) \/ x < Num(-1) THEN NaN
  ELSE FAtan2(FSqrt(Num(1) - FMul(x, x)), x)

\* ------------------------------------------------------------------------
\* Constants of the recognizer
\* ------------------------------------------------------------------------

NUM_POINTS == 64

SQUARE_SIZE == Num(250)

ORIGIN == [x |-> 0, y |-> 0]

deg2Rad(d) == FDiv(FMul(d, PI), Num(180))

DIAGONAL == FSqrt(FAdd(FMul(SQUARE_SIZE, SQUARE_SIZE), FMul(SQUARE_SIZE, SQUARE_SIZE)))

HALF_DIAGONAL == FMul(FDiv(Num(1), Num(2)), DIAGONAL)

ANGLE_RANGE == deg2Rad(Num(45))

ANGLE_PRECISION == deg2Rad(Num(2))

PHI == FMul(FDiv(Num(1), Num(2)), FAdd(Num(-1), FSqrt(Num(5))))

\* the name recognize returns when nothing matched
NoMatch == "No match"

\* ------------------------------------------------------------------------
\* Loops
\* ------------------------------------------------------------------------

Twice(Step(_), s) == Step(Step(s))

Times4(Step(_), s) == Twice(Step, Twice(Step, s))

Times16(Step(_), s) == Times4(Step, Times4(Step, Times4(Step, Times4(Step, s))))

\* while (!Done(s)) s = Step(s), run sixteen iterations at a time to keep
\* the depth of the evaluation small
RECURSIVE While(_, _, _)
While(Done(_), Step(_), s) ==
  IF Done(s) THEN s
  ELSE LET Once(t) == IF Done(t) THEN t ELSE Step(t)
       IN  While(Done, Step, Times16(Once, s))

\* for (i = ...; i < points.length; i++): the loop is over once i, counted
\* from 1, has passed the end of the array
PastEnd(s) == s.i > Len(s.points)

\* ------------------------------------------------------------------------
\* Geometric primitives
\* ------------------------------------------------------------------------

Pt(px, py) == [x |-> px, y |-> py]

distance(p1, p2) ==
  FSqrt(FAdd(FMul(FSub(p2.x, p1.x), FSub(p2.x, p1.x)),
             FMul(FSub(p2.y, p1.y), FSub(p2.y, p1.y))))

pathLengthStep(s) ==
  [s EXCEPT !.i = @ + 1,
            !.d = FAdd(@, distance(s.points[s.i - 1], s.points[s.i]))]

pathLength(points) ==
  While(PastEnd, pathLengthStep, [points |-> points, i |-> 2, d |-> 0]).d

centroidStep(s) ==
  [s EXCEPT !.i = @ + 1,
            !.x = FAdd(@, s.points[s.i].x),
            !.y = FAdd(@, s.points[s.i].y)]

centroidOf(s) ==
  Pt(FDiv(s.x, Num(Len(s.points))), FDiv(s.y, Num(Len(s.points))))

centroid(points) ==
  centroidOf(While(PastEnd, centroidStep,
                   [points |-> points, i |-> 1, x |-> 0, y |-> 0]))

boundingBoxStep(s) ==
  [s EXCEPT !.i = @ + 1,
            !.minX = FMin(@, s.points[s.i].x),
            !.minY = FMin(@, s.points[s.i].y),
            !.maxX = FMax(@, s.points[s.i].x),
            !.maxY = FMax(@, s.points[s.i].y)]

boundingBoxOf(s) ==
  [x |-> s.minX, y |-> s.minY,
   width |-> FSub(s.maxX, s.minX), height |-> FSub(s.maxY, s.minY)]

boundingBox(points) ==
  boundingBoxOf(While(PastEnd, boundingBoxStep,
                      [points |-> points, i |-> 1,
                       minX |-> PInf, maxX |-> NInf,
                       minY |-> PInf, maxY |-> NInf]))

\* the value of a distance computation that raised instead of returning:
\* pathDistance read pts2[i] past the end of pts2, which is undefined, and
\* reading the x of undefined raises a TypeError
Thrown == MAXNUM + 3

pathDistanceDone(s) == s.thrown \/ s.i > Len(s.points)

pathDistanceStep(s) ==
  IF s.i > Len(s.pts2) THEN [s EXCEPT !.thrown = TRUE]
  ELSE [s EXCEPT !.i = @ + 1,
                 !.d = FAdd(@, distance(s.points[s.i], s.pts2[s.i]))]

pathDistanceOf(s) ==
  IF s.thrown THEN Thrown ELSE FDiv(s.d, Num(Len(s.points)))

pathDistance(pts1, pts2) ==
  pathDistanceOf(While(pathDistanceDone, pathDistanceStep,
                       [points |-> pts1, pts2 |-> pts2, i |-> 1, d |-> 0,
                        thrown |-> FALSE]))

\* ------------------------------------------------------------------------
\* Normalization pipeline
\* ------------------------------------------------------------------------

\* points.splice(i, 0, q), with i counted from 1
Splice(points, i, q) ==
  SubSeq(points, 1, i - 1) \o <<q>> \o SubSeq(points, i, Len(points))

\* the point q of resample: d is the length of the segment from p1 to p2
\* and r the part of the interval still to walk
Interpolate(p1, p2, r, d) ==
  Pt(FAdd(p1.x, FMulDiv(r, FSub(p2.x, p1.x), d)),
     FAdd(p1.y, FMulDiv(r, FSub(p2.y, p1.y), d)))

\* the branch of the loop of resample that emits the point q: q is pushed
\* on newPoints and spliced into the array the loop walks
resampleEmit(s, q) ==
  [s EXCEPT !.i = @ + 1,
            !.newPoints = Append(@, q),
            !.points = Splice(@, s.i, q),
            !.distance = 0]

\* one iteration of the loop of resample, d being the length of the
\* segment that ends at points[i]
resampleSegment(s, d) ==
  IF FGe(FAdd(s.distance, d), s.interval)
    THEN resampleEmit(s, Interpolate(s.points[s.i - 1], s.points[s.i],
                                     FSub(s.interval, s.distance), d))
  ELSE [s EXCEPT !.i = @ + 1, !.distance = FAdd(@, d)]

resampleStep(s) == resampleSegment(s, distance(s.points[s.i - 1], s.points[s.i]))

\* the end of resample: s is what the loop left
resampleTail(s, n) ==
  [newPoints |-> IF Len(s.newPoints) = n - 1
                   THEN Append(s.newPoints,
                               Pt(s.points[Len(s.points)].x, s.points[Len(s.points)].y))
                   ELSE s.newPoints,
   points |-> s.points]

\* resample(points, n): newPoints is the value returned, points is the
\* argument array as the call leaves it
resample(points, n) ==
  resampleTail(While(PastEnd, resampleStep,
                     [points |-> points, i |-> 2, distance |-> 0,
                      newPoints |-> <<points[1]>>,
                      interval |-> FDiv(pathLength(points), Num(n - 1))]), n)

indicativeAngleFrom(points, c) ==
  FAtan2(FSub(c.y, points[1].y), FSub(c.x, points[1].x))

indicativeAngle(points) == indicativeAngleFrom(points, centroid(points))

rotateByStep(s) ==
  [s EXCEPT !.i = @ + 1,
            !.newPoints = Append(@,
              Pt(FAdd(FSub(FMul(FSub(s.points[s.i].x, s.c.x), s.cos),
                           FMul(FSub(s.points[s.i].y, s.c.y), s.sin)), s.c.x),
                 FAdd(FAdd(FMul(FSub(s.points[s.i].x, s.c.x), s.sin),
                           FMul(FSub(s.points[s.i].y, s.c.y), s.cos)), s.c.y)))]

rotateBy(points, radians) ==
  While(PastEnd, rotateByStep,
        [points |-> points, i |-> 1, newPoints |-> <<>>,
         c |-> centroid(points),
         cos |-> FCos(radians), sin |-> FSin(radians)]).newPoints

scaleToStep(s) ==
  [s EXCEPT !.i = @ + 1,
            !.newPoints = Append(@,
              Pt(FMul(s.points[s.i].x, FDiv(s.size, s.boundingBox.width)),
                 FMul(s.points[s.i].y, FDiv(s.size, s.boundingBox.height))))]

scaleTo(points, size) ==
  While(PastEnd, scaleToStep,
        [points |-> points, i |-> 1, newPoints |-> <<>>, size |-> size,
         boundingBox |-> boundingBox(points)]).newPoints

translateToStep(s) ==
  [s EXCEPT !.i = @ + 1,
            !.newPoints = Append(@,
              Pt(FSub(FAdd(s.points[s.i].x, s.pt.x), s.c.x),
                 FSub(FAdd(s.points[s.i].y, s.pt.y), s.c.y)))]

translateTo(points, pt) ==
  While(PastEnd, translateToStep,
        [points |-> points, i |-> 1, newPoints |-> <<>>, pt |-> pt,
         c |-> centroid(points)]).newPoints

\* the first loop of vectorize: the coordinates are pushed on the vector
\* and their squares added up
vectorizeStep(s) ==
  [s EXCEPT !.i = @ + 1,
            !.vector = @ \o <<s.points[s.i].x, s.points[s.i].y>>,
            !.sum = FAdd(@, FAdd(FMul(s.points[s.i].x, s.points[s.i].x),
                                 FMul(s.points[s.i].y, s.points[s.i].y)))]

\* the second loop of vectorize: every component is divided by the magnitude
normalizeDone(s) == s.i > Len(s.vector)

normalizeStep(s) ==
  [s EXCEPT !.i = @ + 1, !.vector[s.i] = FDiv(@, s.magnitude)]

normalizeBy(s) ==
  While(normalizeDone, normalizeStep,
        [vector |-> s.vector, i |-> 1, magnitude |-> FSqrt(s.sum)]).vector

vectorize(points) ==
  normalizeBy(While(PastEnd, vectorizeStep,
                    [points |-> points, i |-> 1, vector |-> <<>>, sum |-> 0]))

\* createTemplate reads the x of its first point: with an empty array that
\* point is undefined and the read raises a TypeError
createTemplateThrows(points) == Len(points) = 0

\* the rotation step of createTemplate
rotateToZero(processedPoints) ==
  rotateBy(processedPoints, Neg(indicativeAngle(processedPoints)))

\* the end of createTemplate: the vector and the object returned
createTemplateOf(name, processedPoints) ==
  [name |-> name, points |-> processedPoints, vector |-> vectorize(processedPoints)]

createTemplate(name, points) ==
  createTemplateOf(name,
    translateTo(scaleTo(rotateToZero(resample(points, NUM_POINTS).newPoints),
                        SQUARE_SIZE),
                ORIGIN))

\* the array passed to createTemplate as the call leaves it: resample is
\* handed the caller's array itself and splices into it
createTemplateArg(points) == resample(points, NUM_POINTS).points

\* ------------------------------------------------------------------------
\* Matchers
\* ------------------------------------------------------------------------

\* v[i] of a JavaScript array, i counted from 1: undefined past the end,
\* which is NaN in arithmetic
At(v, i) == IF i <= Len(v) THEN v[i] ELSE NaN

optimalCosineDone(s) == s.i > Len(s.v1)

optimalCosineStep(s) ==
  [s EXCEPT !.i = @ + 2,
            !.a = FAdd(@, FAdd(FMul(At(s.v1, s.i), At(s.v2, s.i)),
                               FMul(At(s.v1, s.i + 1), At(s.v2, s.i + 1)))),
            !.b = FAdd(@, FSub(FMul(At(s.v1, s.i), At(s.v2, s.i + 1)),
                               FMul(At(s.v1, s.i + 1), At(s.v2, s.i))))]

optimalCosineAt(a, b, angle) ==
  FAcos(FAdd(FMul(a, FCos(angle)), FMul(b, FSin(angle))))

optimalCosineOf(s) == optimalCosineAt(s.a, s.b, FAtan(FDiv(s.b, s.a)))

optimalCosineDistance(v1, v2) ==
  optimalCosineOf(While(optimalCosineDone, optimalCosineStep,
                        [v1 |-> v1, v2 |-> v2, i |-> 1, a |-> 0, b |-> 0]))

distanceAtAngle(points, template, radians) ==
  pathDistance(rotateBy(points, radians), template.points)

\* the golden-section loop stops when the bracket is narrow enough; an
\* evaluation that raised ends the whole call
bestAngleDone(s) ==
  s.f1 = Thrown \/ s.f2 = Thrown \/ ~FGt(FAbs(FSub(s.b, s.a)), s.threshold)

\* the two new probe angles of the branches of the loop
probeLow(a, b) == FAdd(FMul(PHI, a), FMul(FSub(Num(1), PHI), b))

probeHigh(a, b) == FAdd(FMul(FSub(Num(1), PHI), a), FMul(PHI, b))

\* the branch of the loop taken: x is its new probe angle and f the distance
\* there
bestAngleWith(s, x, f) ==
  IF FLt(s.f1, s.f2)
    THEN [s EXCEPT !.b = s.x2, !.x2 = s.x1, !.f2 = s.f1, !.x1 = x, !.f1 = f]
    ELSE [s EXCEPT !.a = s.x1, !.x1 = s.x2, !.f1 = s.f2, !.x2 = x, !.f2 = f]

bestAngleAt(s, x) == bestAngleWith(s, x, distanceAtAngle(s.points, s.template, x))

\* the new probe angle of the branch taken, computed from the bracket the
\* branch has just narrowed
bestAngleProbe(s) ==
  IF FLt(s.f1, s.f2) THEN probeLow(s.a, s.x2) ELSE probeHigh(s.x1, s.b)

bestAngleStep(s) == bestAngleAt(s, bestAngleProbe(s))

\* bestAngleOf returning the evaluation at the lower probe
bestAngleOfFirst(s) ==
  IF s.f1 = Thrown \/ s.f2 = Thrown THEN Thrown ELSE s.f1

\* return Math.min(f1, f2)
bestAngleOf(s) ==
  IF s.f1 = Thrown \/ s.f2 = Thrown THEN Thrown ELSE FMin(s.f1, s.f2)

distanceAtBestAngle(points, template, a, b, threshold) ==
  bestAngleOf(While(bestAngleDone, bestAngleStep,
    [points |-> points, template |-> template,
     a |-> a, b |-> b, threshold |-> threshold,
     x1 |-> probeLow(a, b),
     f1 |-> distanceAtAngle(points, template, probeLow(a, b)),
     x2 |-> probeHigh(a, b),
     f2 |-> distanceAtAngle(points, template, probeHigh(a, b))]))

\* a template carries a vector (the field is optional in GestureTemplate)
HasVector(t) == "vector" \in DOMAIN t

\* matchDistance with the angular search for every call
matchDistanceAngular(candidate, template, useProtractor) ==
  distanceAtBestAngle(candidate.points, template,
                      Neg(ANGLE_RANGE), ANGLE_RANGE, ANGLE_PRECISION)

\* the distance recognize computes between the candidate and one template
matchDistance(candidate, template, useProtractor) ==
  IF useProtractor /\ HasVector(candidate) /\ HasVector(template)
    THEN optimalCosineDistance(template.vector, candidate.vector)
    ELSE distanceAtBestAngle(candidate.points, template,
                             Neg(ANGLE_RANGE), ANGLE_RANGE, ANGLE_PRECISION)

\* ------------------------------------------------------------------------
\* JSON
\* ------------------------------------------------------------------------

\* the value JSON.parse reads where JSON.stringify wrote null
Null == MAXNUM + 4

\* a number through JSON.stringify and JSON.parse: NaN and the infinities
\* are written as null
jsonNumber(v) == IF IsFin(v) THEN v ELSE Null

jsonPoint(p) == [x |-> jsonNumber(p.x), y |-> jsonNumber(p.y)]

\* a template through JSON.stringify and JSON.parse
jsonTemplate(t) ==
  [name |-> t.name,
   points |-> [i \in DOMAIN t.points |-> jsonPoint(t.points[i])],
   vector |-> [i \in DOMAIN t.vector |-> jsonNumber(t.vector[i])]]

\* the templates of the list exportTemplates returns:
\* JSON.parse(JSON.stringify(this.templates))
exportTemplates(ts) == [k \in DOMAIN ts |-> jsonTemplate(ts[k])]

\* a coordinate read back from JSON as the arithmetic of createTemplate
\* takes it: null counts as 0
toNumber(v) == IF v = Null THEN 0 ELSE v

\* the points of an exported template as createTemplate computes with them
importedPoints(points) ==
  [i \in DOMAIN points |->
    [x |-> toNumber(points[i].x), y |-> toNumber(points[i].y)]]

\* ------------------------------------------------------------------------
\* Inputs
\* ------------------------------------------------------------------------

\* most templates the store is grown to by addGesture
MaxTemplates == 3

\* most entries in one list handed to importTemplates
MaxBatch == 1

Names == {"A", "B"}

\* a right angle drawn in two segments
StrokeL == <<Pt(Num(0), Num(0)), Pt(Num(60), Num(0)), Pt(Num(60), Num(60))>>

\* three sides of a square
StrokeU == <<Pt(Num(0), Num(0)), Pt(Num(0), Num(60)), Pt(Num(60), Num(60)),
             Pt(Num(60), Num(0))>>

\* a straight horizontal line
StrokeH == <<Pt(Num(0), Num(0)), Pt(Num(100), Num(0))>>

\* a single point
StrokeDot == <<Pt(Num(5), Num(5))>>

\* two points at the same place
StrokeSame == <<Pt(Num(5), Num(5)), Pt(Num(5), Num(5))>>

\* a stroke drawn on the canvas of the creation modal: a right angle in
\* five points
StrokeDrawn ==
  <<Pt(Num(0), Num(0)), Pt(Num(30), Num(0)), Pt(Num(60), Num(0)),
    Pt(Num(60), Num(30)), Pt(Num(60), Num(60))>>

\* the strokes callers pass to addGesture
Strokes == {StrokeL, StrokeU, StrokeH, StrokeDot}

\* the strokes callers pass to recognize
Queries == Strokes \cup {StrokeSame, <<>>}

\* an entry of the list handed to importTemplates. name "" stands for a
\* missing or empty name. shape says what the points field holds: "array" an
\* array of points (the field points), "missing" nothing, "notArray" a
\* value that is not an array, "hasNull" an array with a null element
Entry(name, shape, points) == [name |-> name, shape |-> shape, points |-> points]

ImportEntries ==
  { Entry("A", "array", StrokeL), Entry("B", "array", StrokeU),
    Entry("", "array", StrokeL), Entry("A", "missing", <<>>),
    Entry("A", "notArray", <<>>), Entry("A", "array", <<>>),
    Entry("B", "hasNull", <<>>) }

\* the lists of at most n entries of E
RECURSIVE BatchesOf(_, _)
BatchesOf(E, n) ==
  IF n = 0 THEN {<<>>}
  ELSE BatchesOf(E, n - 1)
         \cup {Append(b, e) : b \in {c \in BatchesOf(E, n - 1) : Len(c) = n - 1},
                              e \in E}

\* the lists of at most n entries
Batches(n) == BatchesOf(ImportEntries, n)

\* the store of the export and import runs: most templates addGesture grows
\* it to, and most entries in a list handed to importTemplates
MaxStored == 2

MaxImported == 2

\* the names and strokes callers add there: a gesture may be added under
\* the empty name
StoreNames == {"A", ""}

StoreStrokes == {StrokeH}

\* the entries imported there: a valid one, one with an empty point list,
\* one with an empty name
StoreEntries ==
  { Entry("A", "array", StrokeH), Entry("A", "array", <<>>),
    Entry("", "array", StrokeH) }

\* ------------------------------------------------------------------------
\* The pipeline and the matchers on the inputs above, computed once
\* ------------------------------------------------------------------------

\* the templates of the strokes added in the export and import runs
FirstTable == [p \in StoreStrokes |-> createTemplate("", p)]

\* the point lists importTemplates is handed when the list comes from
\* exportTemplates
ExportedStrokes ==
  {importedPoints(jsonTemplate(FirstTable[p]).points) : p \in StoreStrokes}

\* the strokes with a point, which createTemplate accepts
TableStrokes == (Queries \ {<<>>}) \cup ExportedStrokes \cup {StrokeDrawn}

TemplateTable == [p \in TableStrokes |-> createTemplate("", p)]

ArgTable == [p \in TableStrokes |-> createTemplateArg(p)]

\* createTemplate(name, points), read from the table
Template(name, points) == [TemplateTable[points] EXCEPT !.name = name]

\* the caller's array after createTemplate(name, points)
ArgAfter(points) == ArgTable[points]

\* the part of a template the matchers read
Shape(t) == [points |-> t.points, vector |-> t.vector]

Shapes == {Shape(TemplateTable[p]) : p \in Queries \ {<<>>}}

DistanceOver(S) ==
  [c \in S |-> [t \in S |-> [u \in BOOLEAN |-> matchDistance(c, t, u)]]]

DistanceTable == DistanceOver(Shapes)

\* matchDistance, read from the table
Distance(candidate, template, useProtractor) ==
  DistanceTable[Shape(candidate)][Shape(template)][useProtractor]

\* ------------------------------------------------------------------------
\* DollarRecognizer
\* ------------------------------------------------------------------------

\* what a call returned: thrown is true when it raised instead
Returned(name, score) == [thrown |-> FALSE, name |-> name, score |-> score]

Raised == [thrown |-> TRUE, name |-> "TypeError", score |-> NaN]

\* the loop of recognize over the templates; i and bestMatch count from 0
\* as in the code, bestMatch -1 meaning none
recognizeDone(s) == s.thrown \/ ~(s.i < Len(s.templates))

\* recognizeCompare with the comparison turned round (not >=), which lets a
\* NaN distance win
recognizeCompareNotGe(s, dist) ==
  IF dist = Thrown THEN [s EXCEPT !.thrown = TRUE]
  ELSE IF ~FGe(dist, s.bestDistance)
    THEN [s EXCEPT !.i = @ + 1, !.bestDistance = dist, !.bestMatch = s.i]
  ELSE [s EXCEPT !.i = @ + 1]

recognizeCompare(s, dist) ==
  IF dist = Thrown THEN [s EXCEPT !.thrown = TRUE]
  ELSE IF FLt(dist, s.bestDistance)
    THEN [s EXCEPT !.i = @ + 1, !.bestDistance = dist, !.bestMatch = s.i]
  ELSE [s EXCEPT !.i = @ + 1]

recognizeStep(s) ==
  recognizeCompare(s, Distance(s.candidate, s.templates[s.i + 1], s.useProtractor))

\* the score of the winning distance
scoreOf(bestDistance, useProtractor) ==
  IF useProtractor THEN FSub(Num(1), bestDistance)
  ELSE FSub(Num(1), FDiv(bestDistance, HALF_DIAGONAL))

\* recognizeResult without the test of bestMatch against -1: the name of
\* templates[-1] is read, which raises
recognizeResultUnchecked(s) ==
  IF s.thrown \/ s.bestMatch = -1 THEN Raised
  ELSE Returned(s.templates[s.bestMatch + 1].name,
                FMax(0, scoreOf(s.bestDistance, s.useProtractor)))

recognizeResult(s) ==
  IF s.thrown THEN Raised
  ELSE IF s.bestMatch = -1 THEN Returned(NoMatch, 0)
  ELSE Returned(s.templates[s.bestMatch + 1].name,
                FMax(0, scoreOf(s.bestDistance, s.useProtractor)))

\* recognize from the call of createTemplate on
recognizeFrom(ts, points, useProtractor) ==
  recognizeResult(While(recognizeDone, recognizeStep,
    [templates |-> ts, candidate |-> Template("", points),
     useProtractor |-> useProtractor,
     i |-> 0, bestMatch |-> -1, bestDistance |-> PInf, thrown |-> FALSE]))

\* recognize without the test of points.length: createTemplate is called on
\* every stroke and raises on the empty one
recognizeUnguarded(ts, points, useProtractor) ==
  IF createTemplateThrows(points) THEN Raised
  ELSE recognizeFrom(ts, points, useProtractor)

\* recognize(points, useProtractor) on the store ts (the elapsed time of the
\* result is left out)
recognize(ts, points, useProtractor) ==
  IF Len(points) < 2 THEN Returned(NoMatch, 0)
  ELSE recognizeFrom(ts, points, useProtractor)

\* the points argument of recognize as the call leaves it
recognizeArg(points) ==
  IF Len(points) < 2 THEN points ELSE ArgAfter(points)

\* recognize keeping the template of the stroke in the store
recognizeStoreKeeping(ts, points, useProtractor) ==
  IF Len(points) < 2 THEN ts
  ELSE Append(ts, Template("", points))

\* the store after recognize: the method assigns neither templates nor a
\* field of a template, and what it passes on of them (templates[i].vector
\* to optimalCosineDistance, templates[i].points to pathDistance) is read
\* only; resample splices into the stroke of the caller, an array no
\* template holds
recognizeStore(ts, points, useProtractor) == ts

\* the Set built from the names of ts, as the sequence of its elements in
\* insertion order: a name already in the Set is not added again
RECURSIVE templateNamesFrom(_, _, _)
templateNamesFrom(ts, k, seen) ==
  IF k > Len(ts) THEN seen
  ELSE templateNamesFrom(ts, k + 1,
         IF \E i \in DOMAIN seen : seen[i] = ts[k].name THEN seen
         ELSE Append(seen, ts[k].name))

\* getTemplateNames spreading the mapped names without the Set
getTemplateNamesAll(ts) == [k \in DOMAIN ts |-> ts[k].name]

\* [...new Set(this.templates.map(t => t.name))]
getTemplateNames(ts) == templateNamesFrom(ts, 1, <<>>)

\* getTemplatesByName with the test turned round (!==)
getTemplatesByNameOther(ts, name) == SelectSeq(ts, LAMBDA t : t.name # name)

\* this.templates.filter(t => t.name === name)
getTemplatesByName(ts, name) == SelectSeq(ts, LAMBDA t : t.name = name)

\* the store after addGesture(name, points)
addGesture(ts, name, points) == Append(ts, Template(name, points))

\* addGestureCount counting every template of the store
addGestureCountAll(ts, name) == Len(ts)

\* the number addGesture(name, points) returns, ts being the store after
\* the push
addGestureCount(ts, name) == Len(getTemplatesByName(ts, name))

\* loadDefaultTemplates pushing a built-in template
loadDefaultTemplatesBuiltIn(ts) == Append(ts, Template("builtin", StrokeL))

\* the body of loadDefaultTemplates is empty
loadDefaultTemplates(ts) == ts

deleteUserGestures(ts) == loadDefaultTemplates(<<>>)

\* removeTemplatesByName removing the first template of that name only
removeTemplatesByNameFirst(ts, name) ==
  IF \E i \in DOMAIN ts : ts[i].name = name
    THEN LET i == CHOOSE k \in DOMAIN ts :
                    /\ ts[k].name = name
                    /\ \A j \in 1..(k - 1) : ts[j].name # name
         IN  SubSeq(ts, 1, i - 1) \o SubSeq(ts, i + 1, Len(ts))
    ELSE ts

removeTemplatesByName(ts, name) == SelectSeq(ts, LAMBDA t : t.name # name)

\* a list of templates a caller holds. items are its templates as the
\* caller reads them; refs[j] is the index in the store of the object that
\* items[j] is (a change to one is a change to the other), 0 when it is no
\* object of the store; array says whether the list is the store's own
\* array object
NoSnapshot == [items |-> <<>>, refs |-> <<>>, array |-> FALSE]

\* exportTemplates returning this.templates itself
exportSnapshotSame(ts) ==
  [items |-> ts, refs |-> [k \in DOMAIN ts |-> k], array |-> TRUE]

\* the list exportTemplates returns: JSON.parse builds new objects all
\* the way down
exportSnapshot(ts) ==
  [items |-> exportTemplates(ts), refs |-> [k \in DOMAIN ts |-> 0],
   array |-> FALSE]

\* a list a caller holds after this.templates.push(t)
snapshotAfterPush(snap, t) ==
  IF snap.array
    THEN [snap EXCEPT !.items = Append(@, t), !.refs = Append(@, Len(@) + 1)]
    ELSE snap

\* a list a caller holds after this.templates = this.templates.filter(...)
\* on the store ts: the store has a new array, in which the objects kept
\* have moved down
snapshotAfterFilter(snap, ts, name) ==
  [snap EXCEPT
    !.array = FALSE,
    !.refs = [j \in DOMAIN snap.refs |->
               IF snap.refs[j] = 0 THEN 0
               ELSE IF ts[snap.refs[j]].name = name THEN 0
               ELSE snap.refs[j]
                      - Cardinality({i \in 1..snap.refs[j] : ts[i].name = name})]]

\* a list a caller holds after this.templates = []
snapshotAfterAssign(snap) ==
  [snap EXCEPT !.array = FALSE, !.refs = [j \in DOMAIN snap.refs |-> 0]]

\* an exported list as the entries handed to importTemplates
exportedEntries(list) ==
  [k \in DOMAIN list |->
    Entry(list[k].name, "array", importedPoints(list[k].points))]

\* the test importTemplates makes on an entry before it calls addGesture
importAccepts(e) == e.name # "" /\ e.shape \in {"array", "hasNull"}

\* addGesture raises on this entry: createTemplate reads the x of a point
\* that is undefined or null
importThrows(e) == e.shape = "hasNull" \/ createTemplateThrows(e.points)

\* the forEach of importTemplates: an entry that raises ends the call, with
\* the templates added so far left in the store
importDone(s) == s.thrown \/ s.i > Len(s.entries)

importStep(s) ==
  IF ~importAccepts(s.entries[s.i]) THEN [s EXCEPT !.i = @ + 1]
  ELSE IF importThrows(s.entries[s.i]) THEN [s EXCEPT !.thrown = TRUE]
  ELSE [s EXCEPT !.i = @ + 1,
                 !.templates = addGesture(@, s.entries[s.i].name, s.entries[s.i].points),
                 !.entries[s.i].points = ArgAfter(@)]

\* importTemplates(entries) on any store: templates is the store it leaves,
\* entries the caller's list as it leaves it
importTemplates(entries) ==
  While(importDone, importStep,
        [templates |-> loadDefaultTemplates(<<>>), entries |-> entries,
         i |-> 1, thrown |-> FALSE])

\* ------------------------------------------------------------------------
\* GestureCommanderPlugin
\* ------------------------------------------------------------------------

\* a GestureMapping, as far as handleGestureComplete reads it
Mapping(gestureName, commandId, enabled, minScore) ==
  [gestureName |-> gestureName, commandId |-> commandId,
   enabled |-> enabled, minScore |-> minScore]

\* the settings handleGestureComplete reads
Settings(recognitionThreshold, useProtractor, gestureMappings) ==
  [recognitionThreshold |-> recognitionThreshold,
   useProtractor |-> useProtractor, gestureMappings |-> gestureMappings]

\* no command was executed
NoCommand == "none"

\* the ids of the commands the host application knows
HostCommands == {"cmdA", "cmdOff", "cmdN"}

\* mappingMatches without the test of enabled
mappingMatchesAny(m, result) ==
  m.gestureName = result.name /\ FGe(result.score, m.minScore)

\* the test of gestureMappings.find
mappingMatches(m, result) ==
  m.enabled /\ m.gestureName = result.name /\ FGe(result.score, m.minScore)

\* gestureMappings.find: the index of the first mapping that passes the
\* test, 0 when none does
findMapping(mappings, result) ==
  IF \E j \in DOMAIN mappings : mappingMatches(mappings[j], result)
    THEN CHOOSE j \in DOMAIN mappings :
           /\ mappingMatches(mappings[j], result)
           /\ \A i \in 1..(j - 1) : ~mappingMatches(mappings[i], result)
    ELSE 0

\* executeCommand: the command is executed when the host knows it
executeCommand(commandId) ==
  IF commandId \in HostCommands
    THEN [executed |-> commandId, notice |-> "executed"]
    ELSE [executed |-> NoCommand, notice |-> "notFound"]

\* handleGestureComplete from the result of recognize on: what was
\* executed and the last Notice shown. An exception recognize raised leaves
\* the handler
handleGestureComplete(result, settings) ==
  IF result.thrown THEN [executed |-> NoCommand, notice |-> "none"]
  ELSE IF FGe(result.score, settings.recognitionThreshold)
    THEN IF findMapping(settings.gestureMappings, result) # 0
           THEN [executeCommand(
                   settings.gestureMappings[
                     findMapping(settings.gestureMappings, result)].commandId)
                 EXCEPT !.notice = "executed"]
           ELSE [executed |-> NoCommand, notice |-> "unmapped"]
    ELSE [executed |-> NoCommand, notice |-> "unrecognized"]

\* the values of the recognition threshold slider tried: its lowest (0.1)
\* and the default (0.6)
Thresholds == {Num(1) \div 10, (6 * Num(1)) \div 10}

\* the minScore saveGesture gives a mapping (0.55)
SavedMinScore == (55 * Num(1)) \div 100

\* the mappings tried: one as saveGesture makes it, a disabled one, one
\* whose command the host no longer has, and one imported under the name
\* of the "No match" result
MappingPool ==
  { Mapping("A", "cmdA", TRUE, SavedMinScore),
    Mapping("A", "cmdOff", FALSE, 0),
    Mapping("B", "cmdGone", TRUE, 0),
    Mapping(NoMatch, "cmdN", TRUE, 0) }

\* the lists of mappings tried: none, one, or two different ones
MappingLists ==
  {<<>>} \cup {<<m>> : m \in MappingPool}
         \cup {<<p[1], p[2]>> :
                 p \in {q \in MappingPool \X MappingPool : q[1] # q[2]}}

\* the strokes GestureCapture completes
CompletedStrokes == {StrokeL, StrokeU, StrokeH}

\* ------------------------------------------------------------------------
\* GestureCapture
\* ------------------------------------------------------------------------

\* the modifier keys a gesture requires
ModifierKeys(alt, shift, ctrl, meta) ==
  [alt |-> alt, shift |-> shift, ctrl |-> ctrl, meta |-> meta]

\* the settings GestureCapture reads; maxStrokeTime is in ticks of the clock
CaptureSettings(modifierKeys, minStrokeLength, maxStrokeTime) ==
  [modifierKeys |-> modifierKeys, minStrokeLength |-> minStrokeLength,
   maxStrokeTime |-> maxStrokeTime]

\* a keyboard event, as far as the handlers read it
KeyEvent(altKey, shiftKey, ctrlKey, metaKey, key) ==
  [altKey |-> altKey, shiftKey |-> shiftKey, ctrlKey |-> ctrlKey,
   metaKey |-> metaKey, key |-> key]

\* the target of a mouse event, as far as shouldIgnoreTarget reads it:
\* whether it lies in an editor area, in the workspace, or in a modal,
\* settings tab, menu or suggestion container, whether its tag is one of
\* the ignored ones, and whether it carries the gesture-ignore mark
Target(inEditor, inWorkspace, ignoredTag, inUi, marked) ==
  [inEditor |-> inEditor, inWorkspace |-> inWorkspace,
   ignoredTag |-> ignoredTag, inUi |-> inUi, marked |-> marked]

\* lastPoint when it is null
NoPoint == [x |-> Null, y |-> Null]

\* the stroke of a callback that was not called
NoStroke == [points |-> <<>>, startTime |-> 0, endTime |-> 0]

areModifierKeysPressed(required, event) ==
  LET altGraphMatches ==
        event.key = "AltGraph" /\ required.alt /\ required.ctrl
  IN /\ (~required.alt \/ event.altKey \/ altGraphMatches)
     /\ (~required.shift \/ event.shiftKey)
     /\ (~required.ctrl \/ event.ctrlKey \/ altGraphMatches)
     /\ (~required.meta \/ event.metaKey)

shouldIgnoreTarget(target) ==
  IF target.inEditor THEN FALSE
  ELSE IF target.inWorkspace THEN FALSE
  ELSE IF target.ignoredTag THEN TRUE
  ELSE IF target.inUi THEN TRUE
  ELSE target.marked

getDistance(p1, p2) ==
  FSqrt(FAdd(FMul(FSub(p2.x, p1.x), FSub(p2.x, p1.x)),
             FMul(FSub(p2.y, p1.y), FSub(p2.y, p1.y))))

RECURSIVE strokeLengthFrom(_, _, _)
\* the loop of calculateStrokeLength from index i on, length being the sum
\* so far
strokeLengthFrom(points, i, length) ==
  IF i > Len(points) THEN length
  ELSE strokeLengthFrom(points, i + 1,
                        FAdd(length, getDistance(points[i - 1], points[i])))

calculateStrokeLength(points) == strokeLengthFrom(points, 2, 0)

\* a GestureCapture with the callback: c.called tells whether the handler
\* running called onGestureComplete and c.stroke is the stroke it passed
stopCapture(c) ==
  [c EXCEPT !.isCapturing = FALSE, !.currentStroke = <<>>,
            !.lastPoint = NoPoint]

startCapture(c, startPoint, time) ==
  [c EXCEPT !.isCapturing = TRUE, !.currentStroke = <<startPoint>>,
            !.startTime = time, !.lastPoint = startPoint]

\* the GestureStroke completeCapture builds: a copy of the points, the
\* start time and the time of the call
strokeOf(c, time) ==
  [points |-> c.currentStroke, startTime |-> c.startTime, endTime |-> time]

\* the call of the callback on the capture c: seen is the state of the
\* capture the callback finds
onGestureComplete(c, stroke) ==
  [c EXCEPT !.called = TRUE, !.stroke = stroke,
            !.seen = [isCapturing |-> c.isCapturing,
                      size |-> Len(c.currentStroke)]]

\* completeCapture without the test of the length of the path
completeCaptureAnyLength(c, time) ==
  IF Len(c.currentStroke) < 2 THEN stopCapture(c)
  ELSE onGestureComplete(stopCapture(c), strokeOf(c, time))

\* completeCapture calling the callback before stopCapture
completeCaptureCallFirst(c, time) ==
  IF Len(c.currentStroke) < 2 THEN stopCapture(c)
  ELSE IF FLt(calculateStrokeLength(c.currentStroke),
              c.settings.minStrokeLength)
    THEN stopCapture(c)
  ELSE stopCapture(onGestureComplete(c, strokeOf(c, time)))

completeCapture(c, time) ==
  IF Len(c.currentStroke) < 2 THEN stopCapture(c)
  ELSE IF FLt(calculateStrokeLength(c.currentStroke),
              c.settings.minStrokeLength)
    THEN stopCapture(c)
  ELSE onGestureComplete(stopCapture(c), strokeOf(c, time))

handleKeyDown(c, event) ==
  IF areModifierKeysPressed(c.settings.modifierKeys, event)
     /\ ~c.modifierPressed
    THEN [c EXCEPT !.modifierPressed = TRUE, !.hasMovedWhilePressed = FALSE]
    ELSE c

\* addPoint without the test of the distance
addPointAlways(c, point) ==
  [c EXCEPT !.currentStroke = Append(@, point), !.lastPoint = point,
            !.hasMovedWhilePressed = TRUE]

\* the point of handleMouseMove is added when it is far enough from the last
addPoint(c, point) ==
  IF c.lastPoint = NoPoint \/ FGt(getDistance(point, c.lastPoint), Num(2))
    THEN [c EXCEPT !.currentStroke = Append(@, point), !.lastPoint = point,
                   !.hasMovedWhilePressed = TRUE]
    ELSE c

\* the test of the maximum stroke time that ends handleMouseMove
checkStrokeTime(c, time) ==
  IF time - c.startTime > c.settings.maxStrokeTime
    THEN stopCapture([c EXCEPT !.timedOut = TRUE])
    ELSE c

handleMouseMove(c, point, target, time) ==
  IF ~c.modifierPressed THEN c
  ELSE IF shouldIgnoreTarget(target) THEN c
  ELSE IF ~c.isCapturing THEN startCapture(c, point, time)
  ELSE checkStrokeTime(addPoint(c, point), time)

\* updateSettings: the fields given replace those of the settings; the
\* plugin gives them all
updateSettings(c, settings) ==
  [c EXCEPT !.settings = settings]

handleKeyUp(c, event, time) ==
  IF ~areModifierKeysPressed(c.settings.modifierKeys, event)
    THEN IF c.isCapturing /\ c.hasMovedWhilePressed
           THEN completeCapture([c EXCEPT !.modifierPressed = FALSE], time)
         ELSE IF c.isCapturing
           THEN stopCapture([c EXCEPT !.modifierPressed = FALSE])
         ELSE [c EXCEPT !.modifierPressed = FALSE]
    ELSE c

\* the longest stroke a capture is followed to
MaxStroke == 3

\* the last tick of the clock
MaxNow == 4

\* the maximum stroke time of the default settings, in ticks of the clock
MaxStrokeTicks == 2

\* the default settings of the plugin, as GestureCapture receives them:
\* the Alt key, 50 pixels, and MaxStrokeTicks for the 3000 ms
DefaultCaptureSettings ==
  CaptureSettings(ModifierKeys(TRUE, FALSE, FALSE, FALSE), Num(50),
                  MaxStrokeTicks)

\* settings that require Alt and Ctrl, which the AltGr key gives, and a
\* longer stroke
AltCtrlCaptureSettings ==
  CaptureSettings(ModifierKeys(TRUE, FALSE, TRUE, FALSE), Num(60),
                  MaxStrokeTicks)

\* the settings the plugin passes to updateSettings
CaptureSettingsTried == {DefaultCaptureSettings, AltCtrlCaptureSettings}

\* the key events tried: Alt and Ctrl shown down or not, the key being
\* AltGraph or another ("a")
KeyEvents ==
  {KeyEvent(altKey, FALSE, ctrlKey, FALSE, key) :
     altKey \in BOOLEAN, ctrlKey \in BOOLEAN, key \in {"a", "AltGraph"}}

\* the modifiers a key event shows down
shownBy(event) ==
  ModifierKeys(event.altKey, event.shiftKey, event.ctrlKey, event.metaKey)

\* the mouse positions tried: the second is within 2 pixels of the first,
\* the fourth is exactly 50 pixels from the first
MousePoints ==
  { Pt(Num(0), Num(0)), Pt(Num(1), Num(0)), Pt(Num(30), Num(0)),
    Pt(Num(30), Num(40)) }

\* the targets tried: a plain element, an element of an editor, a button
\* outside the workspace and a button inside an editor
Targets ==
  { Target(FALSE, FALSE, FALSE, FALSE, FALSE),
    Target(TRUE, TRUE, FALSE, FALSE, FALSE),
    Target(FALSE, FALSE, TRUE, FALSE, FALSE),
    Target(TRUE, TRUE, TRUE, FALSE, FALSE) }

\* ------------------------------------------------------------------------
\* The settings: GestureCommanderSettingTab and GestureCreationModal
\* ------------------------------------------------------------------------

\* the DEFAULT_SETTINGS object as the module declares it, as far as the
\* operations below read it: two objects and a plain value
DEFAULT_SETTINGS ==
  [modifierKeys |-> ModifierKeys(TRUE, FALSE, FALSE, FALSE),
   gestureMappings |-> <<>>, useProtractor |-> FALSE]

\* Object.assign({}, DEFAULT_SETTINGS, data) and { ...DEFAULT_SETTINGS },
\* d being what DEFAULT_SETTINGS holds by now: the copy is one level deep,
\* so the settings get the modifierKeys object and the gestureMappings array
\* of DEFAULT_SETTINGS themselves. keysShared and mappingsShared tell that
\* the object of the settings is the one of DEFAULT_SETTINGS, op names the
\* last operation on the settings
copyOfDefaults(d, op) ==
  [modifierKeys |-> d.modifierKeys, gestureMappings |-> d.gestureMappings,
   useProtractor |-> d.useProtractor, keysShared |-> TRUE,
   mappingsShared |-> TRUE, op |-> op]

\* loadSettings when loadData finds no saved data
loadSettings(d) == copyOfDefaults(d, "load")

\* the settings and DEFAULT_SETTINGS after the gestureMappings array of the
\* settings was changed in place (push, splice, assignment to an element)
\* into list
mappingsChanged(s, d, list, op) ==
  [settings |-> [s EXCEPT !.gestureMappings = list, !.op = op],
   defaults |-> IF s.mappingsShared
                  THEN [d EXCEPT !.gestureMappings = list] ELSE d]

\* the settings and DEFAULT_SETTINGS after settings.modifierKeys[key] = value
modifierKeyChanged(s, d, key, value) ==
  [settings |-> [s EXCEPT !.modifierKeys[key] = value, !.op = "toggle"],
   defaults |-> IF s.keysShared
                  THEN [d EXCEPT !.modifierKeys[key] = value] ELSE d]

\* generateGestureName: the id of the selected command
generateGestureName(commandId) == commandId

\* generateId: an id no mapping of the list has
generateId(mappings) ==
  CHOOSE id \in 1..(Len(mappings) + 1) :
    /\ \A k \in DOMAIN mappings : mappings[k].id # id
    /\ \A other \in 1..(id - 1) : \E k \in DOMAIN mappings : mappings[k].id = other

\* the mapping saveGesture builds
SavedMapping(id, commandId, originalPoints) ==
  [id |-> id, gestureName |-> generateGestureName(commandId),
   commandId |-> commandId, enabled |-> TRUE, minScore |-> SavedMinScore,
   originalPoints |-> originalPoints]

\* findIndex(m => m.id === id), 0 for -1
findIndexById(mappings, id) ==
  IF \E k \in DOMAIN mappings : mappings[k].id = id
    THEN CHOOSE k \in DOMAIN mappings :
           /\ mappings[k].id = id
           /\ \A j \in 1..(k - 1) : mappings[j].id # id
    ELSE 0

\* the store after saveGesture: existing is the index of the mapping being
\* edited, 0 for a new gesture
saveGestureStore(ts, mappings, commandId, existing, points) ==
  addGesture(IF existing # 0
               THEN removeTemplatesByName(ts, mappings[existing].gestureName)
               ELSE ts,
             generateGestureName(commandId), points)

\* the list of mappings after saveGesture: originalPoints is a copy of the
\* drawn points taken after addGesture was handed them
saveGestureMappings(mappings, commandId, existing, points) ==
  IF existing # 0
    THEN IF findIndexById(mappings, mappings[existing].id) # 0
           THEN [mappings EXCEPT
                   ![findIndexById(mappings, mappings[existing].id)] =
                     SavedMapping(mappings[existing].id, commandId,
                                  ArgAfter(points))]
           ELSE mappings
    ELSE Append(mappings,
                SavedMapping(generateId(mappings), commandId, ArgAfter(points)))

\* splice(index, 1)
spliceOut(list, index) ==
  SubSeq(list, 1, index - 1) \o SubSeq(list, index + 1, Len(list))

\* the settings of the capture updateGestureCapture passes on
captureSettingsOf(s) ==
  CaptureSettings(s.modifierKeys, DefaultCaptureSettings.minStrokeLength,
                  DefaultCaptureSettings.maxStrokeTime)

\* what reloadGestures would put in the store at the next start: the names
\* of the mappings with stored points, in order
RECURSIVE reloadedNames(_)
reloadedNames(mappings) ==
  IF mappings = <<>> THEN <<>>
  ELSE (IF Len(Head(mappings).originalPoints) > 0
          THEN <<Head(mappings).gestureName>> ELSE <<>>)
       \o reloadedNames(Tail(mappings))

\* the commands gestures are created for
GestureCommands == {"cmdA", "cmdB"}

\* the modifier keys toggled in the settings tab
ToggledKeys == {"alt", "ctrl"}

\* the most mappings the settings are followed to
MaxMappings == 2

\* a file of gestures as importGestures reads it
GestureFile(gestureMappings, gestureTemplates) ==
  [gestureMappings |-> gestureMappings, gestureTemplates |-> gestureTemplates]

\* the files imported: one gesture for cmdA with its template, and a file
\* of no gesture
GestureFiles ==
  { GestureFile(<<SavedMapping(1, "cmdA", StrokeL)>>,
                <<Entry("cmdA", "array", StrokeL)>>),
    GestureFile(<<>>, <<>>) }

\* ------------------------------------------------------------------------
\* State
\* ------------------------------------------------------------------------

VARIABLES
  templates,   \* DollarRecognizer.templates
  call,        \* the last call made on the recognizer and its outcome
  search,      \* the locals of a distanceAtBestAngle call in progress
  snapshot,    \* the list a caller kept from its last exportTemplates call
  dispatch,    \* the last handleGestureComplete of the plugin and its outcome
  capture,     \* the GestureCapture and what its last handler passed on
  now,         \* Date.now(), in ticks
  kept,        \* the points of the last stroke the callback's receiver got
  settings,    \* the settings of the plugin
  defaults     \* what the DEFAULT_SETTINGS object holds

vars ==
  <<templates, call, search, snapshot, dispatch, capture, now, kept,
    settings, defaults>>

\* the variables the methods of the store do not touch
others == <<search, dispatch, capture, now, kept, settings, defaults>>

\* the variables of the capture
captureVars == <<capture, now, kept>>

\* the variables the capture does not touch
beyondCapture ==
  <<templates, call, snapshot, search, dispatch, settings, defaults>>

\* the variables of the recognizer's store
recognizerVars == <<templates, call, snapshot>>

\* a call record: kind names the method, name/points/useProtractor/entries
\* are its arguments as passed, after is the points argument as the call
\* left it, entriesAfter the entries argument as the call left it, result
\* what recognize returned, count what addGesture returned, removed how many
\* templates the call took out of the store, thrown whether the call raised,
\* names what getTemplateNames returned, found what getTemplatesByName
\* returned
NoCall ==
  [kind |-> "constructor", name |-> "", points |-> <<>>, after |-> <<>>,
   useProtractor |-> FALSE, entries |-> <<>>, entriesAfter |-> <<>>,
   result |-> Returned("", 0), count |-> 0, removed |-> 0, thrown |-> FALSE,
   names |-> <<>>, found |-> <<>>]

\* the plugin before any stroke was completed. settings are the settings
\* handleGestureComplete read, result what recognize returned to it,
\* executed the id of the command it had the host execute (NoCommand when
\* none), notice the Notice it showed
NoDispatch ==
  [kind |-> "none", settings |-> Settings(0, FALSE, <<>>),
   result |-> Returned("", 0), executed |-> NoCommand, notice |-> "none"]

\* the locals of distanceAtBestAngle between calls. pc is "idle" before the
\* first call, "loop" at the test of the while, "done" after the return;
\* evals counts the calls of distanceAtAngle, prev and last are what the two
\* most recent of them returned, iterations counts the passes of the loop
NoSearch ==
  [pc |-> "idle", a |-> 0, b |-> 0, threshold |-> 0,
   x1 |-> 0, f1 |-> 0, x2 |-> 0, f2 |-> 0,
   evals |-> 0, prev |-> 0, last |-> 0, iterations |-> 0, result |-> 0]

\* what the callback finds of the capture when it was not called
NoSeen == [isCapturing |-> FALSE, size |-> 0]

\* the GestureCapture as its constructor leaves it, no listener attached.
\* event names the last event or call, called tells whether its handler
\* called onGestureComplete, stroke is what it passed and seen the state of
\* the capture at that call, timedOut tells whether the handler stopped the
\* capture for its time, shown are the modifiers the most recent key event
\* showed down
NoCapture ==
  [isCapturing |-> FALSE, currentStroke |-> <<>>, startTime |-> 0,
   settings |-> DefaultCaptureSettings, lastPoint |-> NoPoint,
   modifierPressed |-> FALSE, hasMovedWhilePressed |-> FALSE,
   enabled |-> FALSE, event |-> "constructor", called |-> FALSE,
   stroke |-> NoStroke, seen |-> NoSeen, timedOut |-> FALSE,
   shown |-> ModifierKeys(FALSE, FALSE, FALSE, FALSE)]

Init ==
  /\ templates = loadDefaultTemplates(<<>>)
  /\ call = NoCall
  /\ search = NoSearch
  /\ snapshot = NoSnapshot
  /\ dispatch = NoDispatch
  /\ capture = NoCapture
  /\ now = 0
  /\ kept = <<>>
  /\ defaults = DEFAULT_SETTINGS
  /\ settings = loadSettings(DEFAULT_SETTINGS)

AddGesture(name, points) ==
  /\ Len(templates) < MaxTemplates
  /\ templates' = addGesture(templates, name, points)
  /\ call' = [NoCall EXCEPT !.kind = "addGesture", !.name = name,
                            !.points = points, !.after = ArgAfter(points),
                            !.count = addGestureCount(templates', name)]
  /\ snapshot' = snapshotAfterPush(snapshot, templates'[Len(templates')])
  /\ UNCHANGED others

\* the record of a recognize call that ended with result
recognizeCall(points, useProtractor, result) ==
  [NoCall EXCEPT !.kind = "recognize", !.points = points,
                 !.after = recognizeArg(points),
                 !.useProtractor = useProtractor,
                 !.result = result, !.thrown = result.thrown]

Recognize(points, useProtractor) ==
  /\ call' = recognizeCall(points, useProtractor,
                           recognize(templates, points, useProtractor))
  /\ templates' = recognizeStore(templates, points, useProtractor)
  /\ UNCHANGED snapshot
  /\ UNCHANGED others

DeleteUserGestures ==
  /\ templates' = deleteUserGestures(templates)
  /\ call' = [NoCall EXCEPT !.kind = "deleteUserGestures",
                            !.removed = Len(templates)]
  /\ snapshot' = snapshotAfterAssign(snapshot)
  /\ UNCHANGED others

GetTemplateNames ==
  /\ call' = [NoCall EXCEPT !.kind = "getTemplateNames",
                            !.names = getTemplateNames(templates)]
  /\ UNCHANGED <<templates, snapshot>>
  /\ UNCHANGED others

GetTemplatesByName(name) ==
  /\ call' = [NoCall EXCEPT !.kind = "getTemplatesByName", !.name = name,
                            !.found = getTemplatesByName(templates, name)]
  /\ UNCHANGED <<templates, snapshot>>
  /\ UNCHANGED others

RemoveTemplatesByName(name) ==
  /\ templates' = removeTemplatesByName(templates, name)
  /\ call' = [NoCall EXCEPT !.kind = "removeTemplatesByName", !.name = name,
                            !.removed = Len(templates)
                                          - Len(removeTemplatesByName(templates, name))]
  /\ snapshot' = snapshotAfterFilter(snapshot, templates, name)
  /\ UNCHANGED others

\* the record of an importTemplates call that ended in the loop state s
importCall(entries, s) ==
  [NoCall EXCEPT !.kind = "importTemplates", !.entries = entries,
                 !.entriesAfter = s.entries, !.thrown = s.thrown]

\* importTemplates(entries) ending in the loop state s
ImportTemplatesTo(entries, s) ==
  /\ templates' = s.templates
  /\ call' = importCall(entries, s)
  /\ snapshot' = snapshotAfterAssign(snapshot)
  /\ UNCHANGED others

ImportTemplates(entries) == ImportTemplatesTo(entries, importTemplates(entries))

\* exportTemplates called by a caller that does not keep the list: the
\* method builds it from a JSON string of the templates and assigns nothing
ExportTemplatesRead ==
  /\ call' = [NoCall EXCEPT !.kind = "exportTemplates"]
  /\ UNCHANGED <<templates, snapshot>>
  /\ UNCHANGED others

Next ==
  \/ \E name \in Names, points \in Strokes : AddGesture(name, points)
  \/ \E points \in Queries, useProtractor \in BOOLEAN : Recognize(points, useProtractor)
  \/ DeleteUserGestures
  \/ \E name \in Names : RemoveTemplatesByName(name)
  \/ \E entries \in Batches(MaxBatch) : ImportTemplates(entries)
  \/ GetTemplateNames
  \/ \E name \in Names : GetTemplatesByName(name)
  \/ ExportTemplatesRead

Spec == Init /\ [][Next]_vars

\* ------------------------------------------------------------------------
\* Export and import: a caller that keeps the exported list
\* ------------------------------------------------------------------------

ExportTemplates ==
  /\ snapshot' = exportSnapshot(templates)
  /\ call' = [NoCall EXCEPT !.kind = "exportTemplates"]
  /\ UNCHANGED <<templates, others>>

\* all of a list but its last element
Front(list) == SubSeq(list, 1, Len(list) - 1)

\* the caller pops the last element of the list it holds
CallerPops ==
  /\ snapshot.items # <<>>
  /\ snapshot' = [snapshot EXCEPT !.items = Front(@), !.refs = Front(@)]
  /\ templates' = IF snapshot.array THEN Front(templates) ELSE templates
  /\ call' = [NoCall EXCEPT !.kind = "callerPops"]
  /\ UNCHANGED others

\* the caller writes the empty name into the template at j of the list it
\* holds
CallerRenames(j) ==
  /\ snapshot.items[j].name # ""
  /\ snapshot' = [snapshot EXCEPT !.items[j].name = ""]
  /\ templates' = IF snapshot.refs[j] # 0
                    THEN [templates EXCEPT ![snapshot.refs[j]].name = ""]
                    ELSE templates
  /\ call' = [NoCall EXCEPT !.kind = "callerRenames"]
  /\ UNCHANGED others

\* the templates addGesture makes of the strokes added in these runs
FirstShapes == {Shape(FirstTable[p]) : p \in StoreStrokes}

\* importTemplates(exportTemplates()) on a store built by addGesture and
\* removeTemplatesByName, ending in the loop state s
RoundTripTo(s) ==
  /\ \A k \in DOMAIN templates : Shape(templates[k]) \in FirstShapes
  /\ templates' = s.templates
  /\ call' = [NoCall EXCEPT !.kind = "roundTrip", !.thrown = s.thrown]
  /\ snapshot' = snapshotAfterAssign(snapshot)
  /\ UNCHANGED others

RoundTrip ==
  RoundTripTo(importTemplates(exportedEntries(exportTemplates(templates))))

StoreNext ==
  \/ \E name \in StoreNames, points \in StoreStrokes :
       Len(templates) < MaxStored /\ AddGesture(name, points)
  \/ \E name \in StoreNames : RemoveTemplatesByName(name)
  \/ DeleteUserGestures
  \/ \E entries \in BatchesOf(StoreEntries, MaxImported) : ImportTemplates(entries)
  \/ ExportTemplates
  \/ CallerPops
  \/ \E j \in DOMAIN snapshot.items : CallerRenames(j)
  \/ RoundTrip

SpecStore == Init /\ [][StoreNext]_vars

\* ------------------------------------------------------------------------
\* The plugin's dispatch of a completed stroke
\* ------------------------------------------------------------------------

\* handleGestureComplete(stroke) under the settings given, result being
\* what recognize returned and outcome what the handler did with it
HandleGestureCompleteTo(points, given, result, outcome) ==
  /\ call' = recognizeCall(points, given.useProtractor, result)
  /\ dispatch' =
       [kind |-> "handled", settings |-> given, result |-> result,
        executed |-> outcome.executed, notice |-> outcome.notice]
  /\ templates' = recognizeStore(templates, points, given.useProtractor)
  /\ UNCHANGED <<snapshot, search, captureVars, settings, defaults>>

HandleGestureCompleteWith(points, given, result) ==
  HandleGestureCompleteTo(points, given, result,
                          handleGestureComplete(result, given))

HandleGestureComplete(points, given) ==
  HandleGestureCompleteWith(points, given,
    recognize(templates, points, given.useProtractor))

DispatchNext ==
  \/ \E name \in Names :
       Len(templates) < MaxStored /\ AddGesture(name, StrokeL)
  \/ \E points \in CompletedStrokes, threshold \in Thresholds,
        useProtractor \in BOOLEAN, mappings \in MappingLists :
       HandleGestureComplete(points, Settings(threshold, useProtractor, mappings))

SpecDispatch == Init /\ [][DispatchNext]_vars

\* ------------------------------------------------------------------------
\* The events GestureCapture handles
\* ------------------------------------------------------------------------

\* the capture as a handler finds it: nothing was passed to the callback yet
Handling(kind) ==
  [capture EXCEPT !.event = kind, !.called = FALSE, !.stroke = NoStroke,
                  !.seen = NoSeen, !.timedOut = FALSE]

\* enable(): the listeners are attached
Enable ==
  /\ capture' = [Handling("enable") EXCEPT !.enabled = TRUE]
  /\ UNCHANGED <<now, beyondCapture>>

\* disable(): the listeners are detached and the capture is stopped
Disable ==
  /\ capture' = stopCapture([Handling("disable") EXCEPT !.enabled = FALSE])
  /\ UNCHANGED <<now, beyondCapture>>

KeyDown(event) ==
  /\ capture.enabled
  /\ capture' = handleKeyDown([Handling("keydown") EXCEPT
                                !.shown = shownBy(event)], event)
  /\ UNCHANGED <<now, beyondCapture>>

MouseMove(point, target) ==
  /\ capture.enabled
  /\ Len(capture.currentStroke) < MaxStroke
  /\ capture' = handleMouseMove(Handling("mousemove"), point, target, now)
  /\ UNCHANGED <<now, beyondCapture>>

KeyUp(event) ==
  /\ capture.enabled
  /\ capture' = handleKeyUp([Handling("keyup") EXCEPT
                              !.shown = shownBy(event)], event, now)
  /\ UNCHANGED <<now, beyondCapture>>

\* the mouse button is released: no listener of the capture is attached
\* to this event
MouseUp ==
  /\ capture.enabled
  /\ capture' = Handling("mouseup")
  /\ UNCHANGED <<now, beyondCapture>>

\* updateGestureCapture of the plugin after a change of the settings
UpdateSettings(given) ==
  /\ capture' = updateSettings(Handling("updateSettings"), given)
  /\ UNCHANGED <<now, beyondCapture>>

\* time passes between two events
Tick ==
  /\ now < MaxNow
  /\ now' = now + 1
  /\ UNCHANGED <<capture, beyondCapture>>

\* the capture alone: what the receiver of the callback keeps is left out
CaptureNext ==
  \/ Enable /\ UNCHANGED kept
  \/ Disable /\ UNCHANGED kept
  \/ \E event \in KeyEvents : KeyDown(event) /\ UNCHANGED kept
  \/ \E point \in MousePoints, target \in Targets :
       MouseMove(point, target) /\ UNCHANGED kept
  \/ \E event \in KeyEvents : KeyUp(event) /\ UNCHANGED kept
  \/ MouseUp /\ UNCHANGED kept
  \/ \E given \in CaptureSettingsTried :
       UpdateSettings(given) /\ UNCHANGED kept
  \/ Tick /\ UNCHANGED kept

SpecCapture == Init /\ [][CaptureNext]_vars

\* ------------------------------------------------------------------------
\* The capture and the receiver of its callback
\* ------------------------------------------------------------------------

\* the receiver keeps the stroke the handler passed, if it passed one. The
\* points it gets are a copy ([...currentStroke]) and stopCapture gives
\* currentStroke a new array, so no later push reaches the array it holds
Receive ==
  kept' = IF capture'.called THEN capture'.stroke.points ELSE kept

\* the key events of a user who holds and releases the Alt key
AltKeyEvents ==
  {KeyEvent(altKey, FALSE, FALSE, FALSE, "a") : altKey \in BOOLEAN}

\* the events of the capture with the default settings and no stroke
\* running out of time, the receiver followed
ReceiverNext ==
  \/ Enable /\ Receive
  \/ Disable /\ Receive
  \/ \E event \in AltKeyEvents : KeyDown(event) /\ Receive
  \/ \E point \in MousePoints, target \in Targets :
       MouseMove(point, target) /\ Receive
  \/ \E event \in AltKeyEvents : KeyUp(event) /\ Receive

SpecReceiver == Init /\ [][ReceiverNext]_vars

\* ------------------------------------------------------------------------
\* The operations of the settings tab and of the creation modal
\* ------------------------------------------------------------------------

\* saveGesture ending with the store ts and the settings and defaults of
\* pair
SaveGestureTo(commandId, points, ts, pair) ==
  /\ templates' = ts
  /\ settings' = pair.settings
  /\ defaults' = pair.defaults
  /\ call' = [NoCall EXCEPT !.kind = "addGesture",
                            !.name = generateGestureName(commandId),
                            !.points = points, !.after = ArgAfter(points),
                            !.count = addGestureCount(ts, generateGestureName(commandId))]
  /\ UNCHANGED <<snapshot, search, dispatch, captureVars>>

\* saveGesture of the creation modal: a new gesture (existing = 0) or the
\* mapping at index existing edited
SaveGesture(commandId, existing, points) ==
  /\ Len(points) >= 5
  /\ Len(templates) < MaxTemplates
  /\ existing = 0 => Len(settings.gestureMappings) < MaxMappings
  /\ SaveGestureTo(commandId, points,
       saveGestureStore(templates, settings.gestureMappings, commandId,
                        existing, points),
       mappingsChanged(settings, defaults,
         saveGestureMappings(settings.gestureMappings, commandId, existing,
                             points),
         "save"))

\* the Delete button of the mapping at index
DeleteMapping(index) ==
  /\ templates' = removeTemplatesByName(templates,
                    settings.gestureMappings[index].gestureName)
  /\ settings' = mappingsChanged(settings, defaults,
                   spliceOut(settings.gestureMappings, index), "delete").settings
  /\ defaults' = mappingsChanged(settings, defaults,
                   spliceOut(settings.gestureMappings, index), "delete").defaults
  /\ call' = [NoCall EXCEPT
       !.kind = "removeTemplatesByName",
       !.name = settings.gestureMappings[index].gestureName,
       !.removed = Len(templates) - Len(templates')]
  /\ UNCHANGED <<snapshot, search, dispatch, captureVars>>

\* a toggle of a modifier key, with updateGestureCapture
ToggleModifierKey(key) ==
  /\ settings' = modifierKeyChanged(settings, defaults, key,
                                    ~settings.modifierKeys[key]).settings
  /\ defaults' = modifierKeyChanged(settings, defaults, key,
                                    ~settings.modifierKeys[key]).defaults
  /\ capture' = updateSettings(Handling("updateSettings"),
                               captureSettingsOf(settings'))
  /\ UNCHANGED <<recognizerVars, search, dispatch, now, kept>>

\* the toggle of the Protractor matcher
ToggleProtractor ==
  /\ settings' = [settings EXCEPT !.useProtractor = ~@, !.op = "toggle"]
  /\ UNCHANGED <<defaults, recognizerVars, search, dispatch, captureVars>>

\* the Reset button, confirmed
ResetSettings ==
  /\ settings' = copyOfDefaults(defaults, "reset")
  /\ capture' = updateSettings(Handling("updateSettings"),
                               captureSettingsOf(settings'))
  /\ UNCHANGED <<defaults, recognizerVars, search, dispatch, now, kept>>

\* importGestures of a file, s being the loop state importTemplates ends in
ImportGesturesTo(file, s) ==
  /\ settings' = [settings EXCEPT !.gestureMappings = file.gestureMappings,
                                  !.mappingsShared = FALSE, !.op = "import"]
  /\ templates' = s.templates
  /\ call' = importCall(file.gestureTemplates, s)
  /\ UNCHANGED <<defaults, snapshot, search, dispatch, captureVars>>

ImportGestures(file) ==
  ImportGesturesTo(file, importTemplates(file.gestureTemplates))

SettingsNext ==
  \/ \E commandId \in GestureCommands,
        existing \in 0..Len(settings.gestureMappings) :
       SaveGesture(commandId, existing, StrokeDrawn)
  \/ \E index \in DOMAIN settings.gestureMappings : DeleteMapping(index)
  \/ \E key \in ToggledKeys : ToggleModifierKey(key)
  \/ ToggleProtractor
  \/ ResetSettings
  \/ \E file \in GestureFiles : ImportGestures(file)

SpecSettings == Init /\ [][SettingsNext]_vars

\* ------------------------------------------------------------------------
\* distanceAtBestAngle, one evaluation at a time
\* ------------------------------------------------------------------------

\* what a call of distanceAtAngle may return: a distance, NaN, or Thrown
\* when the call raises
Evals == {0, Num(1), Num(2), NaN, Thrown}

\* the entry of distanceAtBestAngle with the range and precision recognize
\* passes: the two first probes, f1 and f2 being what distanceAtAngle
\* returned there
SearchStart(f1, f2) ==
  /\ search.pc \in {"idle", "done"}
  /\ UNCHANGED <<dispatch, captureVars, settings, defaults>>
  /\ search' = [NoSearch EXCEPT
       !.pc = "loop",
       !.a = Neg(ANGLE_RANGE), !.b = ANGLE_RANGE, !.threshold = ANGLE_PRECISION,
       !.x1 = probeLow(Neg(ANGLE_RANGE), ANGLE_RANGE), !.f1 = f1,
       !.x2 = probeHigh(Neg(ANGLE_RANGE), ANGLE_RANGE),
       !.f2 = IF f1 = Thrown THEN Thrown ELSE f2,
       !.evals = IF f1 = Thrown THEN 1 ELSE 2,
       !.prev = f1, !.last = IF f1 = Thrown THEN Thrown ELSE f2]
  /\ UNCHANGED recognizerVars

\* one pass of the while loop, f being what distanceAtAngle returned at the
\* new probe
SearchStep(f) ==
  /\ search.pc = "loop"
  /\ ~bestAngleDone(search)
  /\ search' = [bestAngleWith(search, bestAngleProbe(search), f) EXCEPT
                  !.evals = @ + 1, !.prev = search.last, !.last = f,
                  !.iterations = @ + 1]
  /\ UNCHANGED <<recognizerVars, dispatch, captureVars, settings, defaults>>

\* the loop is left and distanceAtBestAngle returns
SearchReturn ==
  /\ search.pc = "loop"
  /\ bestAngleDone(search)
  /\ search' = [search EXCEPT !.pc = "done", !.result = bestAngleOf(search)]
  /\ UNCHANGED <<recognizerVars, dispatch, captureVars, settings, defaults>>

SearchNext ==
  \/ \E f1, f2 \in Evals : SearchStart(f1, f2)
  \/ \E f \in Evals : SearchStep(f)
  \/ SearchReturn

\* a call in progress goes on: nothing in distanceAtBestAngle waits
SpecSearch ==
  /\ Init
  /\ [][SearchNext]_vars
  /\ WF_vars(\E f \in Evals : SearchStep(f))
  /\ WF_vars(SearchReturn)

\* ------------------------------------------------------------------------
\* Properties
\* ------------------------------------------------------------------------

\* the distance recognize computes between the stroke of the last call and
\* the template at index k of the store
CallDistance(k) ==
  Distance(Template("", call.points), templates[k], call.useProtractor)

\* C1: for a non-empty store and a query of at least 2 points, recognize
\* returns (it does not raise) the name of the lowest-index template among
\* those at the minimum distance.
FirstMinimumWins ==
  (call.kind = "recognize" /\ Len(call.points) >= 2 /\ templates # <<>>) =>
    /\ ~call.thrown
    /\ \E k \in DOMAIN templates :
         /\ \A j \in DOMAIN templates : ~FLt(CallDistance(j), CallDistance(k))
         /\ \A j \in 1..(k - 1) : FLt(CallDistance(k), CallDistance(j))
         /\ call.result.name = templates[k].name

\* C2: for a stroke of fewer than 2 points recognize returns "No match" with
\* score 0 for both matchers and any store, and the normalization pipeline
\* does not run: nothing is raised and the stroke is left as passed.
ShortStrokeNoMatch ==
  (call.kind = "recognize" /\ Len(call.points) < 2) =>
    /\ ~call.thrown
    /\ call.result = Returned(NoMatch, 0)
    /\ call.after = call.points

\* a recognize call on the empty stroke with templates in the store
ShortStrokeSeen ==
  /\ call.kind = "recognize"
  /\ call.points = <<>>
  /\ call.useProtractor
  /\ Len(templates) >= 2
  /\ call.result.name = NoMatch

\* C3: on an empty store recognize of a stroke of at least 2 points returns
\* "No match" with score 0, for both matchers.
EmptyStoreNoMatch ==
  (call.kind = "recognize" /\ Len(call.points) >= 2 /\ templates = <<>>) =>
    /\ ~call.thrown
    /\ call.result = Returned(NoMatch, 0)

\* a recognize call of a 3-point stroke on the empty store
EmptyStoreSeen ==
  /\ call.kind = "recognize"
  /\ call.points = StrokeL
  /\ templates = <<>>
  /\ call.result.name = NoMatch
  /\ call.result.score = 0

\* C4: every result recognize returns has a score that is a number between
\* 0 and 1.
ScoreInUnitRange ==
  (call.kind = "recognize" /\ ~call.thrown) =>
    /\ IsFin(call.result.score)
    /\ 0 <= call.result.score
    /\ call.result.score <= Num(1)

\* a recognize call that found a template further than the matcher's unit
\* distance from the stroke, where the raw score is negative and comes back
\* as 0
ScoreClampedSeen ==
  /\ call.kind = "recognize"
  /\ ~call.thrown
  /\ call.result.name \in Names
  /\ call.result.score = 0
  /\ \A k \in DOMAIN templates :
       /\ IsFin(CallDistance(k))
       /\ CallDistance(k) > Num(1)

\* C5: addGesture, recognize and importTemplates leave the point sequences
\* the caller passed in with the same length and the same points.
CallerStrokeUnchanged ==
  /\ call.after = call.points
  /\ call.entriesAfter = call.entries

\* C6: every template in the store has exactly 64 points and a vector of
\* 128 components.
TemplatesHaveNumPoints ==
  \A k \in DOMAIN templates :
    /\ Len(templates[k].points) = NUM_POINTS
    /\ Len(templates[k].vector) = 2 * NUM_POINTS

\* the entries importTemplates is to add: a name and a non-empty list of
\* points
ValidEntry(e) == e.name # "" /\ e.shape = "array" /\ Len(e.points) > 0

\* C7: importTemplates never raises, and it adds every valid entry of the
\* batch and no other.
ImportNeverRaises ==
  call.kind = "importTemplates" =>
    /\ ~call.thrown
    /\ Len(templates) = Len(SelectSeq(call.entries, ValidEntry))
    /\ \A k \in DOMAIN templates :
         templates[k].name = SelectSeq(call.entries, ValidEntry)[k].name

\* C8: no template in the store holds a coordinate or a vector component
\* that is infinite or NaN.
TemplatesFinite ==
  \A k \in DOMAIN templates :
    /\ \A i \in DOMAIN templates[k].points :
         IsFin(templates[k].points[i].x) /\ IsFin(templates[k].points[i].y)
    /\ \A i \in DOMAIN templates[k].vector : IsFin(templates[k].vector[i])

\* the indexes of the templates of ts called name
Named(ts, name) == {i \in DOMAIN ts : ts[i].name = name}

\* C9: addGesture appends exactly one template, of the name passed, and
\* returns 1 plus the number of templates of that name in the store just
\* before the call, which is the number of them in the store after it.
AddGestureCounts ==
  [][call'.kind = "addGesture" =>
       /\ Len(templates') = Len(templates) + 1
       /\ SubSeq(templates', 1, Len(templates)) = templates
       /\ templates'[Len(templates')].name = call'.name
       /\ call'.count = 1 + Cardinality(Named(templates, call'.name))
       /\ call'.count = Cardinality(Named(templates', call'.name))]_vars

\* the third addGesture of one name, with the count 3 it returned
AddGestureThriceSeen ==
  /\ call.kind = "addGesture"
  /\ call.count = 3
  /\ Len(templates) = 3
  /\ \A k \in DOMAIN templates : templates[k].name = call.name

\* C10: removeTemplatesByName(name) raises nothing, leaves exactly the
\* templates of other names in their order, and a second application
\* changes nothing.
RemoveByNameExact ==
  [][call'.kind = "removeTemplatesByName" =>
       /\ ~call'.thrown
       /\ Named(templates', call'.name) = {}
       /\ \E f \in [DOMAIN templates' -> DOMAIN templates] :
            /\ \A i \in DOMAIN templates' : templates'[i] = templates[f[i]]
            /\ \A i, j \in DOMAIN templates' : i < j => f[i] < f[j]
            /\ {f[i] : i \in DOMAIN templates'}
                 = DOMAIN templates \ Named(templates, call'.name)
       /\ removeTemplatesByName(templates', call'.name) = templates']_vars

\* a removeTemplatesByName call that took out the two templates of its name
\* and left the one of the other name
RemoveByNameSeen ==
  /\ call.kind = "removeTemplatesByName"
  /\ ~call.thrown
  /\ call.removed = 2
  /\ Len(templates) = 1
  /\ templates[1].name # call.name

\* the index of the first template of ts called name
FirstNamed(ts, name) ==
  CHOOSE k \in Named(ts, name) : \A j \in Named(ts, name) : k <= j

\* C14: getTemplateNames returns each name of the store exactly once, the
\* names ordered by the position of the first template of each name.
NamesFirstSeen ==
  call.kind = "getTemplateNames" =>
    /\ {call.names[i] : i \in DOMAIN call.names}
         = {templates[k].name : k \in DOMAIN templates}
    /\ \A i, j \in DOMAIN call.names :
         i < j => /\ call.names[i] # call.names[j]
                  /\ FirstNamed(templates, call.names[i])
                       < FirstNamed(templates, call.names[j])

\* getTemplateNames on a store whose first name comes back after another
NamesFirstSeenSeen ==
  /\ call.kind = "getTemplateNames"
  /\ Len(templates) = 3
  /\ templates[1].name = "B" /\ templates[2].name = "A" /\ templates[3].name = "B"
  /\ call.names = <<"B", "A">>

\* C15: getTemplatesByName(name) returns exactly the templates of that name
\* in store order, none when there is none, and leaves the store as it was;
\* addGesture keeps the templates already stored in place and
\* removeTemplatesByName keeps the templates of every other name in order.
ByNameInOrder ==
  [][/\ call'.kind = "getTemplatesByName" =>
          /\ templates' = templates
          /\ \A i \in DOMAIN call'.found : call'.found[i].name = call'.name
          /\ Len(call'.found) = Cardinality(Named(templates, call'.name))
          /\ \E f \in [DOMAIN call'.found -> DOMAIN templates] :
               /\ \A i \in DOMAIN call'.found : call'.found[i] = templates[f[i]]
               /\ \A i, j \in DOMAIN call'.found : i < j => f[i] < f[j]
               /\ {f[i] : i \in DOMAIN call'.found} = Named(templates, call'.name)
     /\ call'.kind = "addGesture" =>
          SubSeq(templates', 1, Len(templates)) = templates
     /\ call'.kind = "removeTemplatesByName" =>
          \A n \in Names \ {call'.name} :
            getTemplatesByName(templates', n) = getTemplatesByName(templates, n)]_vars

\* getTemplatesByName returning two different templates of its name that
\* have a template of another name between them in the store
ByNameInOrderSeen ==
  /\ call.kind = "getTemplatesByName"
  /\ Len(templates) = 3
  /\ templates[2].name # call.name
  /\ Len(call.found) = 2
  /\ call.found[1] # call.found[2]
  /\ call.found = <<templates[1], templates[3]>>

\* C16: right after construction and right after deleteUserGestures the
\* store is empty: getTemplateNames and exportTemplates return empty lists.
EmptyAfterClear ==
  call.kind \in {"constructor", "deleteUserGestures"} =>
    /\ templates = <<>>
    /\ getTemplateNames(templates) = <<>>
    /\ exportTemplates(templates) = <<>>

\* deleteUserGestures on a full store
EmptyAfterClearSeen ==
  /\ call.kind = "deleteUserGestures"
  /\ call.removed = MaxTemplates
  /\ templates = <<>>

\* the two matchers on the inputs, each computed on its own
CosineTable ==
  [c \in Shapes |-> [t \in Shapes |-> optimalCosineDistance(t.vector, c.vector)]]

AngularTable ==
  [c \in Shapes |->
    [t \in Shapes |-> distanceAtBestAngle(c.points, t, Neg(ANGLE_RANGE),
                                          ANGLE_RANGE, ANGLE_PRECISION)]]

\* the distance of the matcher useProtractor selects, between the stroke of
\* the last call and the template at index k of the store
MatcherDistance(k) ==
  IF call.useProtractor
    THEN CosineTable[Shape(Template("", call.points))][Shape(templates[k])]
    ELSE AngularTable[Shape(Template("", call.points))][Shape(templates[k])]

\* the score conversion of the matcher useProtractor selects
MatcherScore(d) ==
  IF call.useProtractor THEN FSub(Num(1), d)
  ELSE FSub(Num(1), FDiv(d, HALF_DIAGONAL))

\* C17: in a recognize call every stored template and the query carry a
\* vector, every template is scored by the matcher useProtractor selects
\* (cosine when true, angular search when false), and the score returned is
\* that matcher's conversion of the winning distance (1 - d, or
\* 1 - d / halfDiagonal), not below 0.
SingleMatcher ==
  (call.kind = "recognize" /\ Len(call.points) >= 2) =>
    /\ HasVector(Template("", call.points))
    /\ \A k \in DOMAIN templates :
         /\ HasVector(templates[k])
         /\ CallDistance(k) = MatcherDistance(k)
    /\ (~call.thrown /\ call.result.name # NoMatch) =>
         \E k \in DOMAIN templates :
           /\ \A j \in DOMAIN templates :
                ~FLt(MatcherDistance(j), MatcherDistance(k))
           /\ call.result.name = templates[k].name
           /\ call.result.score = FMax(0, MatcherScore(MatcherDistance(k)))

\* a Protractor call that returned a positive score from a store holding a
\* 1-point template, on which the angular search would have raised
SingleMatcherSeen ==
  /\ call.kind = "recognize"
  /\ call.useProtractor
  /\ ~call.thrown
  /\ call.result.name \in Names
  /\ call.result.score > 0
  /\ \E k \in DOMAIN templates :
       /\ Len(templates[k].points) = 1
       /\ AngularTable[Shape(Template("", call.points))][Shape(templates[k])] = Thrown

\* the width of the bracket of a search
Width(s) == FAbs(FSub(s.b, s.a))

\* how far, in units of 1/SCALE, the fixed-point products may put the new
\* width from PHI times the old one
ShrinkTolerance == 2

\* a pass of the loop makes one evaluation and is entered only with a
\* bracket wider than the threshold, which it shrinks by the factor PHI
SearchPass ==
  (search.pc = "loop" /\ search'.pc = "loop") =>
    /\ search'.evals = search.evals + 1
    /\ search'.iterations = search.iterations + 1
    /\ FGt(Width(search), search.threshold)
    /\ Width(search') < Width(search)
    /\ FAbs(FSub(Width(search'), FMul(PHI, Width(search)))) <= ShrinkTolerance

\* the bracket and the probes stay ordered inside the initial range
SearchBracket ==
  search.pc \in {"loop", "done"} =>
    /\ Neg(ANGLE_RANGE) <= search.a
    /\ search.a <= search.x1
    /\ search.x1 <= search.x2
    /\ search.x2 <= search.b
    /\ search.b <= ANGLE_RANGE

\* a call that returned left the loop with a bracket within the threshold
SearchStopped ==
  (search.pc = "done" /\ search.result # Thrown) =>
    ~FGt(Width(search), search.threshold)

\* the value returned is Math.min of the evaluations held at the two probes
\* when the loop stops: NaN if one of them is NaN, the lower otherwise; one
\* of the two is the evaluation made last
SearchMinOfHeld ==
  (search.pc = "done" /\ search.result # Thrown) =>
    /\ search.last \in {search.f1, search.f2}
    /\ IF IsNaN(search.f1) \/ IsNaN(search.f2) THEN IsNaN(search.result)
       ELSE /\ search.result \in {search.f1, search.f2}
            /\ search.result <= search.f1
            /\ search.result <= search.f2

\* the value returned is the lower of the two evaluations made last
SearchMinOfLastTwo ==
  (search.pc = "done" /\ search.result # Thrown) =>
    /\ search.result \in {search.prev, search.last}
    /\ ~FLt(search.prev, search.result)
    /\ ~FLt(search.last, search.result)

\* C18: the golden-section search terminates for any evaluation results;
\* each pass makes one evaluation and shrinks the bracket by PHI; bracket
\* and probes stay ordered in [-45, +45] degrees; the loop stops once the
\* bracket is within 2 degrees; the value returned is Math.min of the two
\* evaluations held at the probes at that point (the newest one and the
\* one kept from an earlier pass).
SearchTerminates ==
  /\ [][SearchPass]_vars
  /\ [](SearchBracket /\ SearchStopped /\ SearchMinOfHeld)
  /\ (search.pc = "loop") ~> (search.pc = "done")

\* a search that returned an evaluation older than the two made last
SearchReturnedOlder ==
  /\ search.pc = "done"
  /\ search.iterations >= 8
  /\ search.evals = search.iterations + 2
  /\ IsFin(search.result)
  /\ search.result \notin {search.prev, search.last}
  /\ search.result < search.prev
  /\ search.result < search.last

\* C18 as stated: the same, the value returned being the lower of the last
\* two evaluations.
SearchReturnsLastTwo ==
  /\ [][SearchPass]_vars
  /\ [](SearchBracket /\ SearchStopped /\ SearchMinOfLastTwo)
  /\ (search.pc = "loop") ~> (search.pc = "done")

\* C11: importTemplates(L) replaces the store: afterwards it holds nothing
\* but one template per valid entry of L (a name and a non-empty point
\* list), under that entry's name and in the order of L.
ImportReplacesStore ==
  [][call'.kind = "importTemplates" =>
       /\ Len(templates') = Len(SelectSeq(call'.entries, ValidEntry))
       /\ \A k \in DOMAIN templates' :
            /\ templates'[k].name = SelectSeq(call'.entries, ValidEntry)[k].name
            /\ templates'[k]
                 = Template(templates'[k].name,
                            SelectSeq(call'.entries, ValidEntry)[k].points)]_vars

RoundTripKeepsNames ==
  [][call'.kind = "roundTrip" =>
       /\ ~call'.thrown
       /\ getTemplateNames(templates') = getTemplateNames(templates)
       /\ \A n \in StoreNames :
            Len(getTemplatesByName(templates', n))
              = Len(getTemplatesByName(templates, n))]_vars

\* C19: handleGestureComplete has a command executed only if the score is
\* at least the recognition threshold and some mapping is enabled, carries
\* the recognized name and a minScore at most the score, the command being
\* that mapping's; a "No match" result runs no command.
CommandOnlyIfMapped ==
  dispatch.kind = "handled" =>
    /\ dispatch.executed # NoCommand =>
         /\ ~dispatch.result.thrown
         /\ dispatch.result.score >= dispatch.settings.recognitionThreshold
         /\ \E j \in DOMAIN dispatch.settings.gestureMappings :
              /\ dispatch.settings.gestureMappings[j].enabled
              /\ dispatch.settings.gestureMappings[j].gestureName
                   = dispatch.result.name
              /\ dispatch.settings.gestureMappings[j].minScore
                   <= dispatch.result.score
              /\ dispatch.settings.gestureMappings[j].commandId
                   = dispatch.executed
    /\ dispatch.result.name = NoMatch => dispatch.executed = NoCommand

\* a stroke recognized as A under two mappings of A, the first disabled:
\* the command of the second was executed
CommandOfEnabledSeen ==
  /\ dispatch.kind = "handled"
  /\ dispatch.result.name = "A"
  /\ Len(dispatch.settings.gestureMappings) = 2
  /\ ~dispatch.settings.gestureMappings[1].enabled
  /\ dispatch.settings.gestureMappings[1].gestureName = "A"
  /\ dispatch.settings.gestureMappings[2].commandId = "cmdA"
  /\ dispatch.executed = "cmdA"

\* C20: a stroke a handler hands to the completion callback is the stroke
\* captured up to that key-up event, it has at least 2 points and its path is at
\* least minStrokeLength long; a capture a key-up event ends with fewer
\* points or a shorter path is dropped and the callback is not called.
DeliveredLongEnough ==
  [][ /\ (capture' # capture /\ capture'.called) =>
           /\ capture'.event = "keyup"
           /\ capture'.stroke.points = capture.currentStroke
           /\ Len(capture'.stroke.points) >= 2
           /\ pathLength(capture'.stroke.points)
                >= capture.settings.minStrokeLength
      /\ ( /\ capture'.event = "keyup"
           /\ capture.isCapturing
           /\ ~capture'.isCapturing
           /\ \/ Len(capture.currentStroke) < 2
              \/ pathLength(capture.currentStroke)
                   < capture.settings.minStrokeLength )
         => /\ ~capture'.called
            /\ capture'.stroke = NoStroke
            /\ capture'.currentStroke = <<>> ]_vars

\* a stroke of 2 points exactly minStrokeLength long was handed over
DeliveredAtMinimumSeen ==
  /\ capture.called
  /\ Len(capture.stroke.points) = 2
  /\ pathLength(capture.stroke.points) = capture.settings.minStrokeLength

\* C21: a stroke handed to the completion callback lasted no longer than
\* maxStrokeTime: its endTime minus its startTime is at most the configured
\* maximum, whatever the time between the events.
DeliveredWithinMaxTime ==
  capture.called =>
    capture.stroke.endTime - capture.stroke.startTime
      <= capture.settings.maxStrokeTime

\* every modifier required is down among those shown
requiredDown(required, shown) ==
  /\ (required.alt => shown.alt)
  /\ (required.shift => shown.shift)
  /\ (required.ctrl => shown.ctrl)
  /\ (required.meta => shown.meta)

\* C22: a mouse move starts a capture or adds a point only if the most
\* recent key event showed every required modifier down, and after a key-up
\* event that shows a required modifier no longer down no capture is on.
PointsOnlyWhileHeld ==
  [][ /\ ( /\ capture'.event = "mousemove"
           /\ Len(capture'.currentStroke) > Len(capture.currentStroke) )
         => requiredDown(capture.settings.modifierKeys, capture.shown)
      /\ ( /\ capture'.event = "keyup"
           /\ capture' # capture
           /\ ~requiredDown(capture'.settings.modifierKeys, capture'.shown) )
         => ~capture'.isCapturing ]_vars

\* C23: releasing the mouse button during a capture ends the capture, and
\* hands the stroke to the completion callback when it is long enough.
MouseUpCompletes ==
  [][ (capture'.event = "mouseup" /\ capture.isCapturing)
      => /\ ~capture'.isCapturing
         /\ ( /\ Len(capture.currentStroke) >= 2
              /\ pathLength(capture.currentStroke)
                   >= capture.settings.minStrokeLength )
            => /\ capture'.called
               /\ capture'.stroke.points = capture.currentStroke ]_vars

\* the targets the filter is meant for: an ignored tag, an element of a
\* modal, settings tab, menu or suggestion container, or a marked element
filtered(target) == target.ignoredTag \/ target.inUi \/ target.marked

\* C24: a mouse move whose target is one the filter is meant for neither
\* starts a capture nor adds a point, wherever the target sits in the page.
FilteredTargetIgnored ==
  [][ \A point \in MousePoints, target \in Targets :
        (filtered(target) /\ MouseMove(point, target))
        => /\ capture'.currentStroke = capture.currentStroke
           /\ capture'.isCapturing = capture.isCapturing ]_vars

\* C27: after a mouse move stopped the capture for its time, the next event
\* of the same modifier hold does not start a new capture.
AbandonedAfterTimeout ==
  [][ (capture.timedOut /\ capture.modifierPressed)
      => ~capture'.isCapturing ]_vars

RECURSIVE apartFrom(_, _)
\* every two consecutive points from index i on are more than 2 pixels
\* apart
apartFrom(points, i) ==
  IF i > Len(points) THEN TRUE
  ELSE /\ FGt(distance(points[i - 1], points[i]), Num(2))
       /\ apartFrom(points, i + 1)

\* C28: when isCapturing is false the current stroke is empty and
\* lastPoint is null; when it is true the stroke is not empty, lastPoint is
\* its last point, modifierPressed is true and consecutive points are more
\* than 2 pixels apart.
CaptureStateConsistent ==
  IF capture.isCapturing
    THEN /\ capture.currentStroke # <<>>
         /\ capture.lastPoint
              = capture.currentStroke[Len(capture.currentStroke)]
         /\ capture.modifierPressed
         /\ apartFrom(capture.currentStroke, 2)
    ELSE /\ capture.currentStroke = <<>>
         /\ capture.lastPoint = NoPoint

\* a capture runs and its stroke has grown to the longest followed
CaptureRunningSeen ==
  /\ capture.isCapturing
  /\ Len(capture.currentStroke) = MaxStroke
  /\ capture.event = "mousemove"
  /\ capture.hasMovedWhilePressed

ReadKinds ==
  {"recognize", "getTemplateNames", "getTemplatesByName", "exportTemplates"}

countOf(names, name) == Len(SelectSeq(names, LAMBDA n : n = name))

\* C25: a confirmed reset leaves gestureMappings empty and modifierKeys
\* alt-only, whatever gestures were created and whatever keys were toggled
\* before it, since no operation changes what DEFAULT_SETTINGS holds
ResetRestoresDefaults ==
  settings.op = "reset" =>
    /\ settings.gestureMappings = <<>>
    /\ settings.modifierKeys = ModifierKeys(TRUE, FALSE, FALSE, FALSE)

\* C26: after any create, edit, delete, import or reset, the recognizer
\* holds under every name as many templates as reloadGestures would rebuild
\* from the mappings of the settings
RecognizerMatchesMappings ==
  \A name \in {templates[k].name : k \in DOMAIN templates}
                \cup {settings.gestureMappings[k].gestureName :
                        k \in DOMAIN settings.gestureMappings} :
    addGestureCount(templates, name)
      = countOf(reloadedNames(settings.gestureMappings), name)

====
